---- MODULE Spec2Model ----
(***************************************************************************)
(* Model of the X-Ray tracing SDK (xray_sdk): the Run/Step lifecycle of    *)
(* XRayTracer / RunContext / StepContext, the trace value types of         *)
(* xray_sdk.models and the background queue of XRayClient.                 *)
(*                                                                         *)
(* One pipeline thread drives the tracer through nested `with` scopes.     *)
(* Python objects are modelled by reference: `runs` and `steps` are heaps  *)
(* (index = object identity), a run's `steps` list holds step identities   *)
(* and a step handle keeps pointing at the same StepTrace after its scope  *)
(* has exited.                                                             *)
(*                                                                         *)
(* Spec      : run/step lifecycle under every tracer configuration.        *)
(* SpecSteps : the StepContext methods and the sampling policy, local mode.*)
(* SpecClient: a tracer with an api_url; runs are enqueued by the pipeline *)
(*             thread and delivered by the worker thread, one HTTP attempt *)
(*             per step.                                                   *)
(* SpecTwin  : the same pipeline executed twice under the default          *)
(*             settings, against an endpoint that answers and against one  *)
(*             that cannot be reached.                                     *)
(* SpecApi   : the ingestion API (xray_api): POST /api/runs and            *)
(*             GET /api/runs/{run_id} over the two tables.                 *)
(* SpecList  : POST /api/runs and the filters of GET /api/runs.            *)
(* SpecNested: run scopes opened inside one another on one tracer.         *)
(* SpecShutdown  : SpecClient's worker with the None sentinel put on the   *)
(*             queue.                                                      *)
(* SpecClientFair: SpecClient with a fairly scheduled worker thread.       *)
(* SpecQuery : POST /api/runs, the paging of GET /api/runs, GET /api/steps *)
(*             and GET /api/analytics/step-performance.                    *)
(***************************************************************************)
EXTENDS Integers, Sequences, FiniteSets, TLC

\* ---------------------------------------------------------------- bounds
MaxScopes == 3     \* scopes entered in a lifecycle behaviour
MaxOps == 1        \* handle calls made in a lifecycle behaviour
MaxSteps == 1      \* step scopes entered in a step-operation behaviour
MaxStepOps == 2    \* step-handle calls made in a step-operation behaviour
MaxClientRuns == 2 \* run scopes entered in a delivery behaviour
MaxEnq == 2        \* runs put on the queue in a delivery behaviour
MaxStored == 2     \* runs held by the API's database
MaxTwinRuns == 2   \* runs of the pipeline executed side by side
MaxNestedScopes == 4 \* scopes in a behaviour with overlapping runs

\* ------------------------------------------------------ values and inputs
NoneStr == "<None>"
NoTime == 0
NoDuration == -1

Msgs == {"", "boom"}
Rates == {0, 50, 100}
Draws == {0, 99}
CandLists == {<<"c1">>, <<"c1", "c2">>}
Cands == {"c3"}
DecisionArgs ==
    { [action |-> "filtered_out", reason |-> "r1", criteria |-> NoneStr],
      [action |-> "selected", reason |-> "r2", criteria |-> "{k}"] }
Outputs == {"{o1}", "{o2}"}
RunIdArgs == {0}
UserMetaKeys == {"error"}
MetaKeys == {"error", "input_count", "output_count"}

\* A failure: its message and where it was raised.  NoExc: nothing is
\* propagating.  Failures are instances of Exception, the class both
\* context managers handle (`except Exception as e`).
NoExc == [msg |-> "", src |-> "none"]
PipelineExc(m) == [msg |-> m, src |-> "pipeline"]
DeliveryExc == [msg |-> "delivery", src |-> "delivery"]

MStr(s) == [t |-> "str", s |-> s, n |-> 0]
MInt(n) == [t |-> "int", s |-> "", n |-> n]
MAbsent == [t |-> "absent", s |-> "", n |-> 0]

\* Python truthiness of an Optional[str]
Truthy(s) == s # NoneStr /\ s # ""

\* the elements of a sequence
Range(q) == { q[i] : i \in DOMAIN q }

\* str(e) of an exception
Str(e) == e.msg

VARIABLES
    cfg,          \* XRayTracer fields fixed at construction
    runs,         \* heap of PipelineRun objects
    steps,        \* heap of StepTrace objects
    stepCtx,      \* heap of StepContext objects (same index as steps)
    scopes,       \* every `with` scope ever entered
    stack,        \* the pipeline thread's open scopes, innermost last
    exc,          \* the failure propagating in the pipeline thread
    current_run,  \* XRayTracer._current_run (scope index, 0 = None)
    queue,        \* XRayClient._queue (run identities)
    worker,       \* XRayClient._worker_thread: "running" or "dead"
    clock,        \* time.time()
    calls,        \* history of the calls made on each step handle
    completes,    \* number of PipelineRun.complete calls per run
    finals,       \* last value passed to set_final_output per run
    last,         \* the most recent handler that ran
    nops,         \* handle operations performed so far
    wk,           \* each worker thread's position in _worker / send_run
    enq,          \* history of the runs put on the queue, in put order
    log,          \* history of the send_run calls, one entry per call
    db,           \* the API's database: pipeline_runs and step_traces rows
    http,         \* the API's answer to the most recent request
    accepted,     \* history of the payloads answered with 201, in order
    twin          \* two executions of one pipeline: endpoint up and down

vars == <<cfg, runs, steps, stepCtx, scopes, stack, exc, current_run, queue,
          worker, clock, calls, completes, finals, last, nops, wk, enq, log,
          db, http, accepted, twin>>

\* ------------------------------------------------------------ models.py
PipelineRun(run_id, now) ==
    [ run_id |-> run_id, start_time |-> now, end_time |-> NoTime,
      steps |-> <<>>, success |-> TRUE, error |-> NoneStr,
      final_output |-> NoneStr ]

StepTrace(now, sample_rate) ==
    [ run_id |-> 0, inputs |-> "{}", outputs |-> "{}",
      input_candidates |-> <<>>, output_candidates |-> <<>>,
      decisions |-> <<>>, duration_ms |-> NoDuration, timestamp |-> now,
      metadata |-> [k \in MetaKeys |-> MAbsent], sample_rate |-> sample_rate ]

Decision(action, reason, criteria) ==
    [ action |-> action, reason |-> reason,
      criteria |-> IF criteria = NoneStr THEN "{}" ELSE criteria ]

StepTrace_add_decision(step, a) ==
    [step EXCEPT !.decisions = Append(@, Decision(a.action, a.reason, a.criteria))]

\* mutant of complete: the end time is not stamped
complete_no_end_time(run, success, error, now) ==
    LET r2 == IF success # "None"
              THEN [run EXCEPT !.success = (success = "True")] ELSE run
    IN IF Truthy(error)
       THEN [r2 EXCEPT !.success = FALSE, !.error = error]
       ELSE r2

\* PipelineRun.complete(success=None, error=None); success is "None",
\* "True" or "False"
complete(run, success, error, now) ==
    LET r1 == [run EXCEPT !.end_time = now]
        r2 == IF success # "None"
              THEN [r1 EXCEPT !.success = (success = "True")] ELSE r1
    IN IF Truthy(error)
       THEN [r2 EXCEPT !.success = FALSE, !.error = error]
       ELSE r2

\* mutant of add_step: the step is put in front
add_step_front(run, sid) == [run EXCEPT !.steps = <<sid>> \o @]

\* PipelineRun.add_step, `self.steps.append(step)`: the run afterwards
add_step(run, sid) == [run EXCEPT !.steps = Append(@, sid)]

\* PipelineRun.add_step, `step.run_id = self.run_id`: the step afterwards
add_step_stamp(step, run) == [step EXCEPT !.run_id = run.run_id]

total_duration_ms(run) ==
    IF run.end_time # NoTime THEN (run.end_time - run.start_time) * 1000
    ELSE NoDuration

\* ------------------------------------------------------------- tracer.py
\* mutant of StepContext: the draw is compared with <=, so a draw of 0.0
\* samples a step whose sample_rate is 0.0
StepContext_inclusive(sample_rate, u, now, run) ==
    [ sample_rate |-> sample_rate, should_sample |-> (u <= sample_rate),
      start_time |-> now, run |-> run ]

\* StepContext.__init__: `random.random() < sample_rate`; rates and the
\* draw u are in hundredths, random.random() is in [0.0, 1.0)
StepContext(sample_rate, u, now, run) ==
    [ sample_rate |-> sample_rate, should_sample |-> (u < sample_rate),
      start_time |-> now, run |-> run ]

set_input(step, v) == [step EXCEPT !.inputs = v]
set_output(step, v) == [step EXCEPT !.outputs = v]

set_input_candidates(step, ctx, L) ==
    IF ctx.should_sample
    THEN [step EXCEPT !.input_candidates = L]
    ELSE [step EXCEPT !.metadata["input_count"] = MInt(Len(L))]

\* mutant of set_output_candidates: the sampling outcome is not consulted
set_output_candidates_unsampled(step, ctx, L) ==
    [step EXCEPT !.output_candidates = L]

set_output_candidates(step, ctx, L) ==
    IF ctx.should_sample
    THEN [step EXCEPT !.output_candidates = L]
    ELSE step

add_candidate_in(step, ctx, c) ==
    IF ctx.should_sample
    THEN [step EXCEPT !.input_candidates = Append(@, c)]
    ELSE step

add_candidate_out(step, ctx, c) ==
    IF ctx.should_sample
    THEN [step EXCEPT !.output_candidates = Append(@, c)]
    ELSE step

\* mutant of add_decision: decisions follow the sampling outcome
add_decision_sampled(step, ctx, a) ==
    IF ctx.should_sample THEN StepTrace_add_decision(step, a) ELSE step

add_decision(step, ctx, a) == StepTrace_add_decision(step, a)

add_metadata(step, k, v) == [step EXCEPT !.metadata[k] = v]

\* client.py: queue.Queue() is unbounded, so put() never raises queue.Full
put_raises == FALSE

\* mutant of send_run_background: the run is not put on the queue
send_run_background_drop(q, r) == q

\* XRayClient.send_run_background
send_run_background(q, r) == Append(q, r)

\* mutant of send: the run is put on the queue twice
send_twice(q, r) ==
    [ queue |-> IF cfg.client THEN Append(Append(q, r), r) ELSE q,
      raised |-> NoExc ]

\* RunContext.send: the queue afterwards and the failure it raises, if any
send(q, r) ==
    IF cfg.client
    THEN IF put_raises
         THEN [ queue |-> q,
                raised |-> IF ~cfg.fail_silently THEN DeliveryExc ELSE NoExc ]
         ELSE [ queue |-> send_run_background(q, r), raised |-> NoExc ]
    ELSE [ queue |-> q, raised |-> NoExc ]

\* XRayClient.__init__: one `threading.Thread(target=self._worker)` is
\* created and started
NumWorkers_two == 1 + 1

NumWorkers == 1

\* send_run: `retries = 3`, `backoff = 0.5` (kept in milliseconds)
retries == 3
InitialBackoffMs == 500

\* What one `client.post(...)` can meet: an HTTP response with a status
\* code, or a transport failure raised by httpx.  ReadError stands for the
\* transport failures that are neither ConnectError nor TimeoutException
\* (ReadError, WriteError, RemoteProtocolError, ...).
StatusCodes == {200, 400, 499, 500}
TransportErrors == {"ConnectError", "TimeoutException", "ReadError"}
NoResponse == [status |-> 0, exc |-> "none"]

\* response.raise_for_status(): HTTPStatusError unless the status is 2xx
raise_for_status(code) ==
    IF code >= 200 /\ code < 300 THEN "none" ELSE "HTTPStatusError"

Http(code) == [status |-> code, exc |-> raise_for_status(code)]
Transport(e) == [status |-> 0, exc |-> e]
Responses == { Http(c) : c \in StatusCodes } \cup { Transport(e) : e \in TransportErrors }

\* `except (httpx.ConnectError, httpx.TimeoutException, httpx.HTTPStatusError)`
caught(resp) ==
    resp.exc \in {"ConnectError", "TimeoutException", "HTTPStatusError"}

\* mutant of is_client_error: the lower bound is exclusive
is_client_error_narrow(resp) ==
    resp.exc = "HTTPStatusError" /\ 400 < resp.status /\ resp.status < 500

\* `isinstance(e, httpx.HTTPStatusError) and 400 <= e.response.status_code < 500`
is_client_error(resp) ==
    resp.exc = "HTTPStatusError" /\ 400 <= resp.status /\ resp.status < 500

\* mutant of backoff_next: the wait is not doubled
backoff_next_flat(b) == b

\* `backoff *= 2`
backoff_next(b) == b * 2

\* send_run, one turn of `for attempt in range(retries)` that met resp:
\* the call returns, raises, or sleeps and goes round again
after_attempt(attempt, resp) ==
    IF resp.exc = "none" THEN "return"
    ELSE IF ~caught(resp) THEN "raise"
    ELSE IF is_client_error(resp) THEN "raise"
    ELSE IF attempt = retries - 1 THEN "raise"
    ELSE "retry"

\* mutant of queue_get: the newest run is taken first
queue_get_lifo(q) ==
    [item |-> q[Len(q)], rest |-> SubSeq(q, 1, Len(q) - 1)]

\* queue.Queue.get(): the oldest run is taken
queue_get(q) == [item |-> Head(q), rest |-> Tail(q)]

\* `if run is None:  # Sentinel to stop`: None among the run identities
Sentinel == 0

\* queue.Queue.unfinished_tasks: put counts up, task_done counts down;
\* task_done is called when the item taken has been handled
unfinished_tasks(q, w) ==
    Len(q) + Cardinality({ i \in DOMAIN w : w[i].pc = "send_run" })

\* mutant of step_on_exception: the failure is not recorded
step_on_exception_skip(step, e) == step

\* RunContext.step, `except Exception as e` block
step_on_exception(step, e) == add_metadata(step, "error", MStr(Str(e)))

\* RunContext.step, `finally` block, `step.duration_ms = ...`
step_finally(step, ctx, now) ==
    [step EXCEPT !.duration_ms = (now - ctx.start_time) * 1000]

\* RunContext.step, the bare `raise` of the except block
step_reraise(e) == e

\* XRayTracer.start_run, `except Exception as e` block
run_on_exception(run, e, now) == complete(run, "None", Str(e), now)

\* mutant of run_finally: the run is completed as failed
run_finally_strict(run, now) ==
    IF run.end_time = NoTime
    THEN complete(run, "False", NoneStr, now)
    ELSE run

\* XRayTracer.start_run, `if not run.end_time: run.complete()`
run_finally(run, now) ==
    IF run.end_time = NoTime THEN complete(run, "None", NoneStr, now) ELSE run

\* mutant of run_reraise: fail_silently also silences the pipeline's failure
run_reraise_silenced(e, sendRaised) ==
    IF cfg.fail_silently THEN NoExc ELSE e

\* XRayTracer.start_run: the failure leaving the scope, given the failure e
\* that entered the handler and the one raised by the auto-send, if any
run_reraise(e, sendRaised) ==
    IF sendRaised # NoExc /\ ~cfg.fail_silently THEN sendRaised ELSE e

\* _NoOpRunContext / the disabled start_run: a failure thrown in at the
\* yield leaves the generator unchanged
noop_reraise(e) == e

\* ------------------------------------------------- xray_api: the values
\* A rational number, for reduction_rate (a Float column)
Frac(n, d) == [num |-> n, den |-> d]

\* JSON values found in a run's context: a string, or an object of strings
JStr(s) == [t |-> "str", s |-> s, o |-> [k \in {} |-> ""]]
JObj(o) == [t |-> "obj", s |-> "", o |-> o]

\* contexts (JSON objects, Dict[str, Any]), by name
Ctx ==
    [ Empty |-> [k \in {} |-> JStr("")],
      User42 |-> [k \in {"user_id"} |-> JStr("42")],
      User42Prod |->
        [k \in {"user_id", "env"} |->
            IF k = "user_id" THEN JStr("42") ELSE JStr("prod")],
      User43 |-> [k \in {"user_id"} |-> JStr("43")],
      Nested |->
        [k \in {"user"} |->
            JObj([j \in {"id", "name"} |-> IF j = "id" THEN "1" ELSE "n"])],
      NestedId |-> [k \in {"user"} |-> JObj([j \in {"id"} |-> "1"])] ]

\* Strings that are matched character by character are sequences of
\* characters: tags, and the text of a JSON column
TagA == <<"a">>
TagAB == <<"a", "b">>

\* steps of an ingested payload (StepTraceSchema): candidate lists on both
\* sides, decisions, and a timestamp that need not follow the position
StepCandPairs ==
    { [in |-> <<>>, out |-> <<>>],
      [in |-> <<"c1", "c2">>, out |-> <<"c1">>],
      [in |-> <<"c1">>, out |-> <<"c1", "c2">>] }

StepTraceSchema(name, ts, cp) ==
    [ step_name |-> name, step_type |-> "filter", duration_ms |-> NoDuration,
      timestamp |-> ts,
      input_candidates |-> cp.in, output_candidates |-> cp.out,
      decisions |-> <<[action |-> "kept", reason |-> name]>> ]

StepLists ==
    LET StepPayloads(name) ==
            { StepTraceSchema(name, ts, cp) :
                ts \in {1, 2}, cp \in StepCandPairs }
    IN {<<>>} \cup { <<a>> : a \in StepPayloads("A") }
              \cup { <<a, b>> : a \in StepPayloads("A"),
                                b \in StepPayloads("B") }

\* PipelineRunCreate, the body of POST /api/runs
PipelineRunCreate(run_id, name, success, context, tags, stepList) ==
    [ run_id |-> run_id, pipeline_name |-> name, pipeline_version |-> "1",
      success |-> success, context |-> context, tags |-> tags,
      steps |-> stepList ]

RunIds == {"r1", "r2"}

\* payloads that differ in their steps
IngestPayloads ==
    { PipelineRunCreate(id, "p", TRUE, Ctx.Empty, <<>>, sl) :
        id \in RunIds, sl \in StepLists }

\* payloads that differ in the fields the run listing filters on
ListPayloads ==
    LET ListFields ==
            { [context |-> Ctx.User42Prod, tags |-> <<TagAB>>],
              [context |-> Ctx.User43, tags |-> <<TagA>>],
              [context |-> Ctx.Nested, tags |-> <<>>] }
    IN { PipelineRunCreate(id, name, ok, f.context, f.tags, <<>>) :
           id \in RunIds, name \in {"p", "q"}, ok \in BOOLEAN,
           f \in ListFields }

\* payloads that differ in the fields the step listing and the analytics
\* read: step_name, step_type, duration_ms (None for two of the steps),
\* timestamp, and candidate counts giving the rates 1/2, 1/3, -1 and 0
QueryPayloads ==
    LET Step(name, type, ts, in, out, ms) ==
            [StepTraceSchema(name, ts, [in |-> in, out |-> out]) EXCEPT
                !.step_type = type, !.duration_ms = ms]
        s == << Step("A", "filter", 1, <<"c1", "c2">>, <<"c1">>, 5),
                Step("A", "filter", 2, <<"c1", "c2", "c3">>, <<"c1", "c2">>, 10),
                Step("B", "filter", 1, <<"c1">>, <<"c1", "c2">>, NoDuration),
                Step("A", "llm", 2, <<>>, <<>>, 10),
                Step("B", "llm", 1, <<"c1", "c2">>, <<"c1">>, NoDuration) >>
        lists == {<<>>} \cup { <<s[i]>> : i \in DOMAIN s }
                 \cup { <<s[i], s[j]>> : i \in DOMAIN s, j \in 2..Len(s) }
    IN { PipelineRunCreate(id, name, TRUE, Ctx.Empty, <<>>, sl) :
           id \in RunIds, name \in {"p", "q"},
           sl \in { l \in lists : Len(l) = 2 => l[1] # l[2] } }

\* ------------------------------------------------- xray_api: ingestion
\* mutant of reduction_rate: a negative rate is replaced by 0
reduction_rate_clamped(input_count, output_count) ==
    IF input_count > 0 /\ output_count <= input_count
    THEN Frac(input_count - output_count, input_count)
    ELSE Frac(0, 1)

\* create_run: `(input_count - output_count) / input_count if input_count > 0
\* else 0.0`
reduction_rate(input_count, output_count) ==
    IF input_count > 0
    THEN Frac(input_count - output_count, input_count)
    ELSE Frac(0, 1)

\* PipelineRunModel(...) as inserted; created_at defaults to the insert time
PipelineRunModel(p, now) ==
    [ run_id |-> p.run_id, pipeline_name |-> p.pipeline_name,
      pipeline_version |-> p.pipeline_version, success |-> p.success,
      context |-> p.context, tags |-> p.tags, created_at |-> now ]

\* StepTraceModel(...) as inserted; id is the autoincrement key
StepTraceModel(run_id, sd, id) ==
    [ id |-> id, run_id |-> run_id, step_name |-> sd.step_name,
      step_type |-> sd.step_type, duration_ms |-> sd.duration_ms,
      timestamp |-> sd.timestamp,
      input_count |-> Len(sd.input_candidates),
      output_count |-> Len(sd.output_candidates),
      reduction_rate |-> reduction_rate(Len(sd.input_candidates),
                                        Len(sd.output_candidates)),
      input_candidates |-> sd.input_candidates,
      output_candidates |-> sd.output_candidates,
      decisions |-> sd.decisions ]

EmptyDb == [pipeline_runs |-> <<>>, step_traces |-> <<>>]

\* mutant of pk_conflict: the primary key is not enforced
pk_conflict_never(d, run_id) == FALSE

\* run_id is the primary key of pipeline_runs
pk_conflict(d, run_id) ==
    \E i \in DOMAIN d.pipeline_runs : d.pipeline_runs[i].run_id = run_id

insert_run(d, p) ==
    [d EXCEPT !.pipeline_runs =
        Append(@, PipelineRunModel(p, Len(d.pipeline_runs) + 1))]

\* the INSERTs of the first k steps of the payload, in payload order
RECURSIVE insert_steps(_, _, _)
insert_steps(d, p, k) ==
    IF k = 0 THEN d
    ELSE LET before == insert_steps(d, p, k - 1) IN
         [before EXCEPT !.step_traces =
             Append(@, StepTraceModel(p.run_id, p.steps[k],
                                      Len(before.step_traces) + 1))]

\* `db.add(run)` and the flush of `db.commit()`: the run's INSERT, then its
\* steps' INSERTs, inside one transaction.  fail = 0: every statement
\* succeeds; fail = n: the database fails the n-th statement.  An existing
\* run_id fails the first statement (IntegrityError).
flush(d, p, fail) ==
    IF pk_conflict(d, p.run_id) THEN [db |-> d, error |-> "IntegrityError"]
    ELSE IF fail = 0
    THEN [db |-> insert_steps(insert_run(d, p), p, Len(p.steps)), error |-> ""]
    ELSE IF fail = 1 THEN [db |-> d, error |-> "OperationalError"]
    ELSE [db |-> insert_steps(insert_run(d, p), p, fail - 2),
          error |-> "OperationalError"]

\* mutant of rollback: what the transaction had written stays
rollback_keeps(d, tx) == tx

\* the session is closed without a commit: the transaction is rolled back
rollback(d, tx) == d

\* `await db.commit()`
commit(d, tx) == tx

\* the query parameters of GET /api/runs; an absent parameter is None
RunQuery(name, version, success, tag, context, limit, offset) ==
    [ pipeline_name |-> name, pipeline_version |-> version,
      success |-> success, tags |-> tag, context |-> context,
      limit |-> limit, offset |-> offset ]

NoQuery == RunQuery(NoneStr, NoneStr, "None", <<>>, NoneStr, 100, 0)

\* A request and its answer: the handler, the run_id or the query asked
\* for, the status, the exception that left the handler, the body's fields
\* (empty when the handler does not set them) and the number of SELECTs
\* executed
Answer(op, status) ==
    [ op |-> op, status |-> status, exc |-> "", req_id |-> "",
      query |-> NoQuery, run_id |-> "", steps |-> <<>>, tags |-> <<>>,
      total |-> 0, items |-> <<>>, queries |-> 0 ]

NoHttp == Answer("none", 0)

\* create_run: the database afterwards and the answer.  A failure of the
\* commit is not handled, so the framework answers 500.
create_run(d, p, fail) ==
    LET f == flush(d, p, fail) IN
    IF f.error # ""
    THEN [db |-> rollback(d, f.db),
          http |-> [Answer("create_run", 500) EXCEPT
                       !.req_id = p.run_id, !.exc = f.error]]
    ELSE [db |-> commit(d, f.db),
          http |-> [Answer("create_run", 201) EXCEPT
                       !.req_id = p.run_id, !.run_id = p.run_id]]

\* --------------------------------------------------- xray_api: queries
\* `.order_by(StepTraceModel.timestamp)`: every arrangement of the rows in
\* which timestamps do not decrease; rows with equal timestamps come in
\* any order
OrderBy(rows) ==
    LET n == Len(rows)
        perms == { f \in [1..n -> 1..n] : \A i, j \in 1..n : i # j => f[i] # f[j] }
    IN { [i \in 1..n |-> rows[f[i]]] :
           f \in { g \in perms : \A i, j \in 1..n :
                       i < j => rows[g[i]].timestamp <= rows[g[j]].timestamp } }

StepsOfRun(d, run_id) ==
    SelectSeq(d.step_traces, LAMBDA row : row.run_id = run_id)

\* get_run: `result.scalar_one_or_none()` found a row
run_exists(d, run_id) ==
    \E i \in DOMAIN d.pipeline_runs : d.pipeline_runs[i].run_id = run_id

\* get_run: StepTraceSchema(...) built from a row
StepOut(row) ==
    [ step_name |-> row.step_name, step_type |-> row.step_type,
      duration_ms |-> row.duration_ms, timestamp |-> row.timestamp,
      input_candidates |-> row.input_candidates,
      output_candidates |-> row.output_candidates,
      decisions |-> row.decisions ]

\* get_run: the answers it can give.  PipelineRunResponse is built without
\* tags, so tags has its default value.
get_run(d, run_id) ==
    IF ~run_exists(d, run_id)
    THEN { [Answer("get_run", 404) EXCEPT !.req_id = run_id, !.queries = 1] }
    ELSE { [Answer("get_run", 200) EXCEPT
                !.req_id = run_id,
                !.run_id = run_id,
                !.steps = [i \in DOMAIN o |-> StepOut(o[i])],
                !.queries = 2] : o \in OrderBy(StepsOfRun(d, run_id)) }

\* json.dumps of a list of strings, the text held by the tags JSON column
Quoted(tag) == <<"\"">> \o tag \o <<"\"">>

RECURSIVE json_dumps_items(_)
json_dumps_items(tags) ==
    IF tags = <<>> THEN <<>>
    ELSE IF Len(tags) = 1 THEN Quoted(tags[1])
    ELSE Quoted(tags[1]) \o <<",", " ">> \o json_dumps_items(Tail(tags))

json_dumps(tags) == <<"[">> \o json_dumps_items(tags) \o <<"]">>

\* SQL LIKE: % matches any run of characters, _ matches any one character
RECURSIVE Like(_, _)
Like(text, pat) ==
    IF pat = <<>> THEN text = <<>>
    ELSE IF Head(pat) = "%"
    THEN Like(text, Tail(pat)) \/ (text # <<>> /\ Like(Tail(text), pat))
    ELSE /\ text # <<>>
         /\ (Head(pat) = "_" \/ Head(pat) = Head(text))
         /\ Like(Tail(text), Tail(pat))

\* list_runs: `func.cast(PipelineRunModel.tags, String).like(f'%"{tags}"%')`
tags_like(row, tag) ==
    Like(json_dumps(row.tags), <<"%">> \o Quoted(tag) \o <<"%">>)

\* texts of the context query parameter, by name
CtxText ==
    [ User42 |-> "{\"user_id\": \"42\"}",
      User43 |-> "{\"user_id\": \"43\"}",
      NestedId |-> "{\"user\": {\"id\": \"1\"}}",
      Truncated |-> "{\"user_id\": ",
      Array |-> "[\"user_id\"]" ]

json_loads(text) ==
    CASE text = CtxText.User42 -> [ok |-> TRUE, kind |-> "object", obj |-> Ctx.User42]
      [] text = CtxText.User43 -> [ok |-> TRUE, kind |-> "object", obj |-> Ctx.User43]
      [] text = CtxText.NestedId -> [ok |-> TRUE, kind |-> "object", obj |-> Ctx.NestedId]
      [] text = CtxText.Array -> [ok |-> TRUE, kind |-> "array", obj |-> Ctx.Empty]
      [] OTHER -> [ok |-> FALSE, kind |-> "none", obj |-> Ctx.Empty]

\* jsonb containment of one value in another: equal scalars, or an object
\* holding every pair of the other object
value_contains(x, y) ==
    IF x.t = "obj" /\ y.t = "obj"
    THEN \A k \in DOMAIN y.o : k \in DOMAIN x.o /\ x.o[k] = y.o[k]
    ELSE x = y

\* `func.cast(PipelineRunModel.context, JSONB).contains(context_dict)`, the
\* @> operator: an object contains an object when it has each of its keys
\* with a containing value; an object contains no array
jsonb_contains(ctx, parsed) ==
    /\ parsed.kind = "object"
    /\ \A k \in DOMAIN parsed.obj :
          k \in DOMAIN ctx /\ value_contains(ctx[k], parsed.obj[k])

\* list_runs: and_(*conditions) on one row
run_matches(row, q) ==
    /\ Truthy(q.pipeline_name) => row.pipeline_name = q.pipeline_name
    /\ Truthy(q.pipeline_version) => row.pipeline_version = q.pipeline_version
    /\ q.success # "None" => row.success = (q.success = "True")
    /\ q.tags # <<>> => tags_like(row, q.tags)
    /\ Truthy(q.context) => jsonb_contains(row.context, json_loads(q.context))

Reverse(seq) == [i \in DOMAIN seq |-> seq[Len(seq) + 1 - i]]

\* `.offset(offset).limit(limit)`
Page(seq, offset, limit) ==
    SubSeq(seq, offset + 1,
           IF offset + limit < Len(seq) THEN offset + limit ELSE Len(seq))

PipelineRunSummary(d, row) ==
    [run_id |-> row.run_id, step_count |-> Len(StepsOfRun(d, row.run_id))]

\* list_runs: the answer.  Rows are held in created_at order, so
\* `order_by(created_at.desc())` is the reverse.  `limit` has an upper
\* bound only (`Query(default=100, le=1000)`); PostgreSQL fails a
\* statement with a negative LIMIT, after the count query has run.
list_runs(d, q) ==
    IF Truthy(q.context) /\ ~json_loads(q.context).ok
    THEN [Answer("list_runs", 400) EXCEPT !.query = q]
    ELSE IF q.limit < 0
    THEN [Answer("list_runs", 500) EXCEPT
             !.query = q, !.exc = "DBAPIError", !.queries = 2]
    ELSE LET matching == SelectSeq(d.pipeline_runs, LAMBDA row : run_matches(row, q))
             page == Page(Reverse(matching), q.offset, q.limit)
         IN [Answer("list_runs", 200) EXCEPT
                !.query = q,
                !.total = Len(matching),
                !.items = [i \in DOMAIN page |-> PipelineRunSummary(d, page[i])],
                !.queries = 2 + Len(page)]

\* the query parameters of GET /api/steps when none is given; an absent
\* number is the empty sequence, a given one a sequence of one element
StepQuery ==
    [ step_name |-> NoneStr, step_type |-> NoneStr,
      min_reduction_rate |-> <<>>, max_reduction_rate |-> <<>>,
      min_duration_ms |-> <<>>, max_duration_ms |-> <<>>,
      pipeline_name |-> NoneStr, limit |-> 100, offset |-> 0 ]

\* `<=` on two Float values
FracLeq(a, b) == a.num * b.den <= b.num * a.den

\* mutant of step_matches: the pipeline_name condition is left out
step_matches_any_pipeline(d, row, q) ==
    /\ Truthy(q.step_name) => row.step_name = q.step_name
    /\ Truthy(q.step_type) => row.step_type = q.step_type
    /\ q.min_reduction_rate # <<>> =>
           FracLeq(q.min_reduction_rate[1], row.reduction_rate)
    /\ q.max_reduction_rate # <<>> =>
           FracLeq(row.reduction_rate, q.max_reduction_rate[1])
    /\ q.min_duration_ms # <<>> =>
           row.duration_ms # NoDuration /\ row.duration_ms >= q.min_duration_ms[1]
    /\ q.max_duration_ms # <<>> =>
           row.duration_ms # NoDuration /\ row.duration_ms <= q.max_duration_ms[1]

\* query_steps: and_(*conditions) on one row of step_traces, joined to
\* its run when pipeline_name is given.  A comparison with a NULL
\* duration_ms is not true.
step_matches(d, row, q) ==
    /\ Truthy(q.step_name) => row.step_name = q.step_name
    /\ Truthy(q.step_type) => row.step_type = q.step_type
    /\ q.min_reduction_rate # <<>> =>
           FracLeq(q.min_reduction_rate[1], row.reduction_rate)
    /\ q.max_reduction_rate # <<>> =>
           FracLeq(row.reduction_rate, q.max_reduction_rate[1])
    /\ q.min_duration_ms # <<>> =>
           row.duration_ms # NoDuration /\ row.duration_ms >= q.min_duration_ms[1]
    /\ q.max_duration_ms # <<>> =>
           row.duration_ms # NoDuration /\ row.duration_ms <= q.max_duration_ms[1]
    /\ Truthy(q.pipeline_name) =>
           \E i \in DOMAIN d.pipeline_runs :
               /\ d.pipeline_runs[i].run_id = row.run_id
               /\ d.pipeline_runs[i].pipeline_name = q.pipeline_name

\* query_steps: the answers it can give.  total is the count query's
\* result; `order_by(timestamp.desc())` is any arrangement in which
\* timestamps do not increase.  A negative limit fails as in list_runs.
query_steps(d, q) ==
    IF q.limit < 0
    THEN { [Answer("query_steps", 500) EXCEPT
               !.query = q, !.exc = "DBAPIError", !.queries = 2] }
    ELSE LET matching == SelectSeq(d.step_traces,
                                   LAMBDA row : step_matches(d, row, q))
         IN { [Answer("query_steps", 200) EXCEPT
                  !.query = q,
                  !.total = Len(matching),
                  !.items = LET page == Page(Reverse(o), q.offset, q.limit)
                            IN [i \in DOMAIN page |-> StepOut(page[i])],
                  !.queries = 2] : o \in OrderBy(matching) }

\* Python's round(x, ndigits), scale = 10^ndigits: the nearest multiple
\* of 1/scale, a tie going to the even one
round(x, scale) ==
    LET n == x.num * scale
        a == IF n < 0 THEN 0 - n ELSE n
        quo == a \div x.den
        rem == a % x.den
        up == 2 * rem > x.den \/ (2 * rem = x.den /\ quo % 2 = 1)
        r == quo + (IF up THEN 1 ELSE 0)
    IN Frac(IF n < 0 THEN 0 - r ELSE r, scale)

\* step_performance_analytics: the answer.  One entry per (step_type,
\* step_name) of the selected rows (the order of the groups is not
\* specified, so the entries are a set); AVG skips NULLs and is NULL when
\* there is none; `round(v, n) if v else 0` for every aggregate.
step_performance_analytics(d, pipeline_name, step_type) ==
    LET selected(row) ==
            /\ Truthy(pipeline_name) =>
                   \E i \in DOMAIN d.pipeline_runs :
                       /\ d.pipeline_runs[i].run_id = row.run_id
                       /\ d.pipeline_runs[i].pipeline_name = pipeline_name
            /\ Truthy(step_type) => row.step_type = step_type
        rows == SelectSeq(d.step_traces, selected)
        group(type, name) ==
            SelectSeq(rows, LAMBDA row : row.step_type = type /\ row.step_name = name)
        timed(g) == SelectSeq(g, LAMBDA row : row.duration_ms # NoDuration)
        RECURSIVE sum(_)
        sum(values) ==
            IF values = <<>> THEN Frac(0, 1)
            ELSE LET rest == sum(Tail(values))
                     v == Head(values)
                 IN Frac(v.num * rest.den + rest.num * v.den, v.den * rest.den)
        avg(values) ==
            IF values = <<>> THEN Frac(0, 1)
            ELSE Frac(sum(values).num, sum(values).den * Len(values))
        rate(row) == row.reduction_rate
        rates(g) == [i \in DOMAIN g |-> g[i].reduction_rate]
        durations(g) == [i \in DOMAIN g |-> Frac(g[i].duration_ms, 1)]
        max(g) == rate(CHOOSE a \in Range(g) :
                           \A b \in Range(g) : FracLeq(rate(b), rate(a)))
        min(g) == rate(CHOOSE a \in Range(g) :
                           \A b \in Range(g) : FracLeq(rate(a), rate(b)))
        rounded(v, scale) == IF v.num # 0 THEN round(v, scale) ELSE Frac(0, 1)
    IN [Answer("step_performance_analytics", 200) EXCEPT
           !.query = [pipeline_name |-> pipeline_name, step_type |-> step_type],
           !.items =
               { LET g == group(k[1], k[2]) IN
                 [ step_type |-> k[1], step_name |-> k[2],
                   count |-> Len(g),
                   avg_reduction_rate |-> rounded(avg(rates(g)), 1000),
                   avg_duration_ms |-> rounded(avg(durations(timed(g))), 100),
                   max_reduction_rate |-> rounded(max(g), 1000),
                   min_reduction_rate |-> rounded(min(g), 1000) ] :
                 k \in { <<row.step_type, row.step_name>> : row \in Range(rows) } },
           !.queries = 1]

\* ------------------------------------ two executions of one pipeline
\* The same pipeline is executed twice, once against an ingestion endpoint
\* that answers ("up") and once against one that cannot be reached
\* ("down").  Timestamps are readings of the pipeline thread's own clock.
Sides == {"up", "down"}

\* the outcome of one POST on each side
SideResponses(s) ==
    IF s = "up" THEN {Http(200)}
    ELSE {Transport("ConnectError"), Transport("TimeoutException")}

TwinWaiting == [pc |-> "get", run |-> 0, attempt |-> 0]

\* one execution: the tracer's runs, the run whose scope is open, the
\* failure propagating in the pipeline, what the pipeline's caller got from
\* each scope, and the client's queue and worker
Execution ==
    [ runs |-> <<>>, open |-> 0, exc |-> NoExc, outcomes |-> <<>>,
      clock |-> 1, queue |-> <<>>, worker |-> "running", wk |-> TwinWaiting,
      delivered |-> 0, discarded |-> 0 ]

TwinInit == [s \in Sides |-> Execution]

\* ------------------------------------------------------------ scopes
Scope(kind, obj) ==
    [kind |-> kind, obj |-> obj, open |-> TRUE, excIn |-> NoExc, excOut |-> NoExc]

Top == stack[Len(stack)]
Pop == SubSeq(stack, 1, Len(stack) - 1)
OpenRuns == { scopes[stack[i]].obj : i \in { j \in 1..Len(stack) : scopes[stack[j]].kind = "run" } }
Closed(sc, e, out) == [scopes EXCEPT ![sc].open = FALSE, ![sc].excIn = e, ![sc].excOut = out]

NoCalls == [decisions |-> <<>>, wantIn |-> <<>>, wantOut |-> <<>>,
            inSet |-> -1, outSet |-> -1]

Last(op, id, e) == [op |-> op, id |-> id, e |-> e]

\* a worker thread blocked in `self._queue.get()`
Waiting == [pc |-> "get", run |-> 0, attempt |-> 0, backoff |-> 0, entry |-> 0]

\* a worker thread entering send_run(run); entry is its line in log
Sending(run, entry) ==
    [pc |-> "send_run", run |-> run, attempt |-> 0,
     backoff |-> InitialBackoffMs, entry |-> entry]

LogEntry(run, w) ==
    [run |-> run, thread |-> w, attempts |-> 0, sleeps |-> <<>>,
     outcome |-> "pending", resp |-> NoResponse]

Init ==
    /\ cfg \in [enabled : BOOLEAN, fail_silently : BOOLEAN,
                auto_send : BOOLEAN, client : BOOLEAN]
    /\ runs = <<>>
    /\ steps = <<>>
    /\ stepCtx = <<>>
    /\ scopes = <<>>
    /\ stack = <<>>
    /\ exc = NoExc
    /\ current_run = 0
    /\ queue = <<>>
    /\ worker = "running"
    /\ clock = 1
    /\ calls = <<>>
    /\ completes = <<>>
    /\ finals = <<>>
    /\ last = Last("init", 0, NoExc)
    /\ nops = 0
    /\ wk = [w \in 1..NumWorkers |-> Waiting]
    /\ enq = <<>>
    /\ log = <<>>
    /\ db = EmptyDb
    /\ http = NoHttp
    /\ accepted = <<>>
    /\ twin = TwinInit

\* mutant of StartRun: the `if not self.enabled` early exit is missing
StartRun_always_on(rid) ==
    /\ exc = NoExc
    /\ LET sc == Len(scopes) + 1 IN
       /\ stack' = Append(stack, sc)
       /\ last' = Last("start_run", sc, NoExc)
       /\ scopes' = Append(scopes, Scope("run", Len(runs) + 1))
       /\ runs' = Append(runs,
             PipelineRun(IF rid = 0 THEN Len(runs) + 1 ELSE rid, clock))
       /\ current_run' = sc
       /\ clock' = clock + 1
       /\ completes' = Append(completes, 0)
       /\ finals' = Append(finals, NoneStr)
    /\ UNCHANGED <<cfg, steps, stepCtx, exc, queue, worker, calls, nops, wk,
                   enq, log, db, http, accepted, twin>>

\* XRayTracer.start_run up to the yield
StartRun(rid) ==
    /\ exc = NoExc
    /\ LET sc == Len(scopes) + 1 IN
       /\ stack' = Append(stack, sc)
       /\ last' = Last("start_run", sc, NoExc)
       /\ IF ~cfg.enabled
          THEN /\ scopes' = Append(scopes, Scope("noop_run", 0))
               /\ UNCHANGED <<runs, current_run, clock, completes, finals>>
          ELSE /\ scopes' = Append(scopes, Scope("run", Len(runs) + 1))
               /\ runs' = Append(runs,
                     PipelineRun(IF rid = 0 THEN Len(runs) + 1 ELSE rid, clock))
               /\ current_run' = sc
               /\ clock' = clock + 1
               /\ completes' = Append(completes, 0)
               /\ finals' = Append(finals, NoneStr)
    /\ UNCHANGED <<cfg, steps, stepCtx, exc, queue, worker, calls, nops, wk,
                   enq, log, db, http, accepted, twin>>

\* RunContext.step up to the yield
EnterStep(r, rate, u) ==
    /\ exc = NoExc
    /\ r \in OpenRuns
    /\ LET sc == Len(scopes) + 1 IN
       /\ stack' = Append(stack, sc)
       /\ last' = Last("step", sc, NoExc)
       /\ scopes' = Append(scopes, Scope("step", Len(steps) + 1))
    /\ steps' = Append(steps, StepTrace(clock, rate))
    /\ stepCtx' = Append(stepCtx, StepContext(rate, u, clock, r))
    /\ calls' = Append(calls, NoCalls)
    /\ clock' = clock + 1
    /\ UNCHANGED <<cfg, runs, exc, current_run, queue, worker, completes,
                   finals, nops, wk, enq, log, db, http, accepted, twin>>

\* _NoOpRunContext.step / filter_step / rank_step / llm_step
EnterNoOpStep ==
    /\ exc = NoExc
    /\ stack # <<>>
    /\ scopes[Top].kind \in {"noop_run", "noop_step"}
    /\ LET sc == Len(scopes) + 1 IN
       /\ stack' = Append(stack, sc)
       /\ last' = Last("noop_step", sc, NoExc)
       /\ scopes' = Append(scopes, Scope("noop_step", 0))
    /\ UNCHANGED <<cfg, runs, steps, stepCtx, exc, current_run, queue, worker,
                   clock, calls, completes, finals, nops, wk, enq, log, db,
                   http, accepted, twin>>

\* A call on a step handle: the StepTrace it points at becomes st
StepCall(op, sid, st, cl) ==
    /\ exc = NoExc
    /\ steps' = [steps EXCEPT ![sid] = st]
    /\ calls' = [calls EXCEPT ![sid] = cl]
    /\ nops' = nops + 1
    /\ last' = Last(op, sid, NoExc)
    /\ UNCHANGED <<cfg, runs, stepCtx, scopes, stack, exc, current_run, queue,
                   worker, clock, completes, finals, wk, enq, log, db, http,
                   accepted, twin>>

SetInput(sid) ==
    StepCall("set_input", sid, set_input(steps[sid], "{a}"), calls[sid])

SetOutput(sid) ==
    StepCall("set_output", sid, set_output(steps[sid], "{b}"), calls[sid])

SetInputCandidates(sid, L) ==
    StepCall("set_input_candidates", sid,
             set_input_candidates(steps[sid], stepCtx[sid], L),
             [calls[sid] EXCEPT !.wantIn = L, !.inSet = Len(L)])

SetOutputCandidates(sid, L) ==
    StepCall("set_output_candidates", sid,
             set_output_candidates(steps[sid], stepCtx[sid], L),
             [calls[sid] EXCEPT !.wantOut = L, !.outSet = Len(L)])

AddCandidateIn(sid, c) ==
    StepCall("add_candidate_in", sid,
             add_candidate_in(steps[sid], stepCtx[sid], c),
             [calls[sid] EXCEPT !.wantIn = Append(@, c)])

AddCandidateOut(sid, c) ==
    StepCall("add_candidate_out", sid,
             add_candidate_out(steps[sid], stepCtx[sid], c),
             [calls[sid] EXCEPT !.wantOut = Append(@, c)])

AddDecision(sid, a) ==
    StepCall("add_decision", sid,
             add_decision(steps[sid], stepCtx[sid], a),
             [calls[sid] EXCEPT !.decisions =
                 Append(@, Decision(a.action, a.reason, a.criteria))])

AddMetadata(sid, k) ==
    StepCall("add_metadata", sid,
             add_metadata(steps[sid], k, MStr("manual")), calls[sid])

\* mutant of SetFinalOutput: the value is written to the tracer's current
\* run and not to the run of the handle
SetFinalOutput_current_run(r, v) ==
    /\ exc = NoExc
    /\ runs' = [runs EXCEPT
                  ![IF current_run = 0 THEN r ELSE scopes[current_run].obj]
                      .final_output = v]
    /\ finals' = [finals EXCEPT ![r] = v]
    /\ nops' = nops + 1
    /\ last' = Last("set_final_output", r, NoExc)
    /\ UNCHANGED <<cfg, steps, stepCtx, scopes, stack, exc, current_run,
                   queue, worker, clock, calls, completes, wk, enq, log, db,
                   http, accepted, twin>>

\* RunContext.set_final_output
SetFinalOutput(r, v) ==
    /\ exc = NoExc
    /\ runs' = [runs EXCEPT ![r].final_output = v]
    /\ finals' = [finals EXCEPT ![r] = v]
    /\ nops' = nops + 1
    /\ last' = Last("set_final_output", r, NoExc)
    /\ UNCHANGED <<cfg, steps, stepCtx, scopes, stack, exc, current_run,
                   queue, worker, clock, calls, completes, wk, enq, log, db,
                   http, accepted, twin>>

\* RunContext.send called by pipeline code
ManualSend(r) ==
    /\ exc = NoExc
    /\ cfg.client
    /\ queue' = send(queue, r).queue
    /\ exc' = send(queue, r).raised
    /\ nops' = nops + 1
    /\ last' = Last("send", r, NoExc)
    /\ enq' = Append(enq, r)
    /\ UNCHANGED <<cfg, runs, steps, stepCtx, scopes, stack, current_run,
                   worker, clock, calls, completes, finals, wk, log, db, http,
                   accepted, twin>>

\* any method of _NoOpRunContext / _NoOpStepContext: `pass`
NoOpCall ==
    /\ exc = NoExc
    /\ \E i \in DOMAIN scopes : scopes[i].kind \in {"noop_run", "noop_step"}
    /\ nops' = nops + 1
    /\ last' = Last("noop_call", 0, NoExc)
    /\ UNCHANGED <<cfg, runs, steps, stepCtx, scopes, stack, exc, current_run,
                   queue, worker, clock, calls, completes, finals, wk, enq,
                   log, db, http, accepted, twin>>

\* pipeline code raises inside the innermost open scope
Raise(m) ==
    /\ exc = NoExc
    /\ stack # <<>>
    /\ exc' = PipelineExc(m)
    /\ last' = Last("raise", Top, PipelineExc(m))
    /\ UNCHANGED <<cfg, runs, steps, stepCtx, scopes, stack, current_run,
                   queue, worker, clock, calls, completes, finals, nops, wk,
                   enq, log, db, http, accepted, twin>>

\* pipeline code (or the pipeline's caller) catches a failure that has left
\* a scope
Catch ==
    /\ exc # NoExc
    /\ last.op # "raise"
    /\ exc' = NoExc
    /\ last' = Last("catch", 0, exc)
    /\ UNCHANGED <<cfg, runs, steps, stepCtx, scopes, stack, current_run,
                   queue, worker, clock, calls, completes, finals, nops, wk,
                   enq, log, db, http, accepted, twin>>

\* RunContext.step from the yield on: except / finally
ExitStep ==
    /\ stack # <<>>
    /\ scopes[Top].kind = "step"
    /\ LET sc == Top
           sid == scopes[sc].obj
           ctx == stepCtx[sid]
           r == ctx.run
           s1 == IF exc # NoExc THEN step_on_exception(steps[sid], exc)
                 ELSE steps[sid]
           s2 == step_finally(s1, ctx, clock)
           out == IF exc # NoExc THEN step_reraise(exc) ELSE NoExc
       IN /\ steps' = [steps EXCEPT ![sid] = add_step_stamp(s2, runs[r])]
          /\ runs' = [runs EXCEPT ![r] = add_step(@, sid)]
          /\ scopes' = Closed(sc, exc, out)
          /\ exc' = out
          /\ last' = Last("step_exit", sc, exc)
    /\ stack' = Pop
    /\ clock' = clock + 1
    /\ UNCHANGED <<cfg, stepCtx, current_run, queue, worker, calls, completes,
                   finals, nops, wk, enq, log, db, http, accepted, twin>>

\* XRayTracer.start_run from the yield on: except / finally
ExitRun ==
    /\ stack # <<>>
    /\ scopes[Top].kind = "run"
    /\ LET sc == Top
           r == scopes[sc].obj
           r1 == IF exc # NoExc THEN run_on_exception(runs[r], exc, clock)
                 ELSE runs[r]
           n1 == IF exc # NoExc THEN 1 ELSE 0
           r2 == run_finally(r1, clock)
           n2 == IF r1.end_time = NoTime THEN 1 ELSE 0
           snd == IF cfg.auto_send /\ cfg.client THEN send(queue, r)
                  ELSE [queue |-> queue, raised |-> NoExc]
           out == run_reraise(exc, snd.raised)
       IN /\ runs' = [runs EXCEPT ![r] = r2]
          /\ completes' = [completes EXCEPT ![r] = @ + n1 + n2]
          /\ queue' = snd.queue
          /\ enq' = IF cfg.auto_send /\ cfg.client THEN Append(enq, r) ELSE enq
          /\ scopes' = Closed(sc, exc, out)
          /\ exc' = out
          /\ last' = Last("run_exit", sc, exc)
    /\ current_run' = 0
    /\ stack' = Pop
    /\ clock' = clock + 1
    /\ UNCHANGED <<cfg, steps, stepCtx, worker, calls, finals, nops, wk, log,
                   db, http, accepted, twin>>

\* the disabled start_run and _NoOpRunContext.step from the yield on
ExitNoOp ==
    /\ stack # <<>>
    /\ scopes[Top].kind \in {"noop_run", "noop_step"}
    /\ scopes' = Closed(Top, exc, noop_reraise(exc))
    /\ exc' = noop_reraise(exc)
    /\ last' = Last("noop_exit", Top, exc)
    /\ stack' = Pop
    /\ UNCHANGED <<cfg, runs, steps, stepCtx, current_run, queue, worker,
                   clock, calls, completes, finals, nops, wk, enq, log, db,
                   http, accepted, twin>>

\* mutant of worker_after: a failed send_run ends the worker thread
worker_after_dies(failed) == IF failed THEN "dead" ELSE "running"

\* XRayClient._worker, one iteration: get a run, send_run it, discard any
\* failure (`except Exception: pass`), task_done.  `reachable` is whether
\* the ingestion endpoint answers.
worker_after(failed) == "running"

WorkerSend(reachable) ==
    /\ worker = "running"
    /\ queue # <<>>
    /\ queue' = Tail(queue)
    /\ worker' = worker_after(~reachable)
    /\ UNCHANGED <<cfg, runs, steps, stepCtx, scopes, stack, exc, current_run,
                   clock, calls, completes, finals, last, nops, wk, enq, log,
                   db, http, accepted, twin>>

\* XRayClient._worker: `run = self._queue.get()` returns a run and the
\* worker enters send_run(run)
WorkerGet(w) ==
    /\ worker = "running"
    /\ wk[w].pc = "get"
    /\ queue # <<>>
    /\ queue_get(queue).item # Sentinel
    /\ LET got == queue_get(queue) IN
       /\ queue' = got.rest
       /\ wk' = [wk EXCEPT ![w] = Sending(got.item, Len(log) + 1)]
       /\ log' = Append(log, LogEntry(got.item, w))
    /\ UNCHANGED <<cfg, runs, steps, stepCtx, scopes, stack, exc, current_run,
                   worker, clock, calls, completes, finals, last, nops, enq,
                   db, http, accepted, twin>>

\* XRayClient.send_run in the worker thread, one turn of the retry loop:
\* the POST meets resp; the call returns, raises, or sleeps for `backoff`
\* and doubles it.  When the call is over, _worker discards its failure
\* (`except Exception: pass`) and goes back to `self._queue.get()`.
WorkerAttempt(w, resp) ==
    /\ wk[w].pc = "send_run"
    /\ LET e == wk[w].entry
           res == after_attempt(wk[w].attempt, resp)
           alive == worker_after(res = "raise")
       IN /\ log' = [log EXCEPT
                       ![e].attempts = @ + 1,
                       ![e].resp = resp,
                       ![e].outcome = IF res = "return" THEN "returned"
                                      ELSE IF res = "raise" THEN "raised"
                                      ELSE "pending",
                       ![e].sleeps = IF res = "retry"
                                     THEN Append(@, wk[w].backoff) ELSE @]
          /\ IF res = "retry"
             THEN /\ wk' = [wk EXCEPT ![w].attempt = @ + 1,
                                      ![w].backoff = backoff_next(@)]
                  /\ UNCHANGED worker
             ELSE /\ wk' = [wk EXCEPT ![w] =
                              IF alive = "running" THEN Waiting
                              ELSE [Waiting EXCEPT !.pc = "exited"]]
                  /\ worker' = alive
    /\ UNCHANGED <<cfg, runs, steps, stepCtx, scopes, stack, exc, current_run,
                   queue, clock, calls, completes, finals, last, nops, enq,
                   db, http, accepted, twin>>

\* mutant of WorkerBreak: the sentinel is taken and the loop goes on
WorkerBreak_continue(w) ==
    /\ worker = "running"
    /\ wk[w].pc = "get"
    /\ queue # <<>>
    /\ queue_get(queue).item = Sentinel
    /\ queue' = queue_get(queue).rest
    /\ UNCHANGED <<cfg, runs, steps, stepCtx, scopes, stack, exc, current_run,
                   worker, clock, calls, completes, finals, last, nops, wk,
                   enq, log, db, http, accepted, twin>>

\* XRayClient._worker: `run = self._queue.get()` returns None and the
\* loop is left (`break`): the thread ends
WorkerBreak(w) ==
    /\ worker = "running"
    /\ wk[w].pc = "get"
    /\ queue # <<>>
    /\ queue_get(queue).item = Sentinel
    /\ queue' = queue_get(queue).rest
    /\ wk' = [wk EXCEPT ![w] = [Waiting EXCEPT !.pc = "exited"]]
    /\ worker' = "stopped"
    /\ UNCHANGED <<cfg, runs, steps, stepCtx, scopes, stack, exc, current_run,
                   clock, calls, completes, finals, last, nops, enq, log, db,
                   http, accepted, twin>>

\* the owner of the client shuts the worker down: None is put on the queue
PutSentinel ==
    /\ queue' = Append(queue, Sentinel)
    /\ enq' = Append(enq, Sentinel)
    /\ UNCHANGED <<cfg, runs, steps, stepCtx, scopes, stack, exc, current_run,
                   worker, clock, calls, completes, finals, last, nops, wk,
                   log, db, http, accepted, twin>>

\* XRayTracer.start_run from the yield on: except, finally, auto-send; the
\* failure leaving the scope is what the pipeline's caller gets
twin_exit_run(e) ==
    LET r == e.open
        r1 == IF e.exc # NoExc THEN run_on_exception(e.runs[r], e.exc, e.clock)
              ELSE e.runs[r]
        r2 == run_finally(r1, e.clock)
        snd == IF cfg.auto_send /\ cfg.client THEN send(e.queue, r)
               ELSE [queue |-> e.queue, raised |-> NoExc]
        out == run_reraise(e.exc, snd.raised)
    IN [e EXCEPT !.runs[r] = r2,
                 !.queue = snd.queue,
                 !.outcomes = Append(@, out),
                 !.exc = NoExc,
                 !.open = 0,
                 !.clock = @ + 1]

\* mutant of worker_discard: a run whose delivery failed is marked failed
worker_discard_marks(run) ==
    [run EXCEPT !.success = FALSE, !.error = DeliveryExc.msg]

\* XRayClient._worker: `except Exception: pass`; the run, which the worker
\* shares with the pipeline, is left as it is
worker_discard(run) == run

\* XRayClient._worker inside send_run: one attempt answered with resp
twin_worker_attempt(e, resp) ==
    LET res == after_attempt(e.wk.attempt, resp) IN
    IF res = "retry" THEN [e EXCEPT !.wk.attempt = @ + 1]
    ELSE IF res = "return"
    THEN [e EXCEPT !.wk = TwinWaiting, !.delivered = @ + 1]
    ELSE [e EXCEPT !.wk = TwinWaiting,
                   !.discarded = @ + 1,
                   !.runs[e.wk.run] = worker_discard(@),
                   !.worker = worker_after(TRUE)]

\* both executions enter `with tracer.start_run(...)`
TwinStartRun ==
    /\ \A s \in Sides : twin[s].open = 0
    /\ twin' = [s \in Sides |->
                  [twin[s] EXCEPT
                      !.runs = Append(@, PipelineRun(Len(@) + 1, twin[s].clock)),
                      !.open = Len(twin[s].runs) + 1,
                      !.clock = @ + 1]]
    /\ UNCHANGED <<cfg, runs, steps, stepCtx, scopes, stack, exc, current_run,
                   queue, worker, clock, calls, completes, finals, last, nops,
                   wk, enq, log, db, http, accepted>>

\* both executions call run.set_final_output(v)
TwinSetFinalOutput(v) ==
    /\ \A s \in Sides : twin[s].open # 0 /\ twin[s].exc = NoExc
    /\ twin' = [s \in Sides |->
                  [twin[s] EXCEPT !.runs[twin[s].open].final_output = v]]
    /\ UNCHANGED <<cfg, runs, steps, stepCtx, scopes, stack, exc, current_run,
                   queue, worker, clock, calls, completes, finals, last, nops,
                   wk, enq, log, db, http, accepted>>

\* the pipeline's code fails in both executions
TwinRaise(m) ==
    /\ \A s \in Sides : twin[s].open # 0 /\ twin[s].exc = NoExc
    /\ twin' = [s \in Sides |-> [twin[s] EXCEPT !.exc = PipelineExc(m)]]
    /\ UNCHANGED <<cfg, runs, steps, stepCtx, scopes, stack, exc, current_run,
                   queue, worker, clock, calls, completes, finals, last, nops,
                   wk, enq, log, db, http, accepted>>

\* both executions leave the `with` block
TwinExitRun ==
    /\ \A s \in Sides : twin[s].open # 0
    /\ twin' = [s \in Sides |-> twin_exit_run(twin[s])]
    /\ UNCHANGED <<cfg, runs, steps, stepCtx, scopes, stack, exc, current_run,
                   queue, worker, clock, calls, completes, finals, last, nops,
                   wk, enq, log, db, http, accepted>>

\* the worker thread of one execution takes a run from its queue
TwinWorkerGet(s) ==
    /\ twin[s].worker = "running"
    /\ twin[s].wk.pc = "get"
    /\ twin[s].queue # <<>>
    /\ twin' = [twin EXCEPT
                  ![s].queue = queue_get(@).rest,
                  ![s].wk = [pc |-> "send_run", attempt |-> 0,
                             run |-> queue_get(twin[s].queue).item]]
    /\ UNCHANGED <<cfg, runs, steps, stepCtx, scopes, stack, exc, current_run,
                   queue, worker, clock, calls, completes, finals, last, nops,
                   wk, enq, log, db, http, accepted>>

\* the worker thread of one execution makes one delivery attempt
TwinWorkerAttempt(s, resp) ==
    /\ twin[s].wk.pc = "send_run"
    /\ twin' = [twin EXCEPT ![s] = twin_worker_attempt(@, resp)]
    /\ UNCHANGED <<cfg, runs, steps, stepCtx, scopes, stack, exc, current_run,
                   queue, worker, clock, calls, completes, finals, last, nops,
                   wk, enq, log, db, http, accepted>>

\* POST /api/runs
CreateRun(p, fail) ==
    /\ db' = create_run(db, p, fail).db
    /\ http' = create_run(db, p, fail).http
    /\ accepted' = IF create_run(db, p, fail).http.status = 201
                   THEN Append(accepted, p) ELSE accepted
    /\ UNCHANGED <<cfg, runs, steps, stepCtx, scopes, stack, exc, current_run,
                   queue, worker, clock, calls, completes, finals, last, nops,
                   wk, enq, log, twin>>

\* GET /api/runs/{run_id}
GetRun(run_id) ==
    /\ \E a \in get_run(db, run_id) : http' = a
    /\ UNCHANGED <<cfg, runs, steps, stepCtx, scopes, stack, exc, current_run,
                   queue, worker, clock, calls, completes, finals, last, nops,
                   wk, enq, log, db, accepted, twin>>

\* GET /api/runs
ListRuns(q) ==
    /\ http' = list_runs(db, q)
    /\ UNCHANGED <<cfg, runs, steps, stepCtx, scopes, stack, exc, current_run,
                   queue, worker, clock, calls, completes, finals, last, nops,
                   wk, enq, log, db, accepted, twin>>

\* GET /api/steps
QuerySteps(q) ==
    /\ \E a \in query_steps(db, q) : http' = a
    /\ UNCHANGED <<cfg, runs, steps, stepCtx, scopes, stack, exc, current_run,
                   queue, worker, clock, calls, completes, finals, last, nops,
                   wk, enq, log, db, accepted, twin>>

\* GET /api/analytics/step-performance
StepPerformanceAnalytics(pipeline_name, step_type) ==
    /\ http' = step_performance_analytics(db, pipeline_name, step_type)
    /\ UNCHANGED <<cfg, runs, steps, stepCtx, scopes, stack, exc, current_run,
                   queue, worker, clock, calls, completes, finals, last, nops,
                   wk, enq, log, db, accepted, twin>>

\* ------------------------------------------------------ specifications
\* Lifecycle behaviours: every tracer configuration; pipeline code opens
\* run scopes one after the other, step scopes with the default
\* sample_rate (possibly nested), raises, catches, and calls the run
\* handle and add_metadata.
Next ==
    \/ /\ Len(scopes) < MaxScopes
       /\ stack = <<>>
       /\ \E rid \in RunIdArgs : StartRun(rid)
    \/ /\ Len(scopes) < MaxScopes
       /\ \E r \in DOMAIN runs : EnterStep(r, 100, 0)
    \/ /\ Len(scopes) < MaxScopes
       /\ EnterNoOpStep
    \/ /\ nops < MaxOps
       /\ \E sid \in DOMAIN steps, k \in UserMetaKeys : AddMetadata(sid, k)
    \/ /\ nops < MaxOps
       /\ \E r \in DOMAIN runs, v \in Outputs : SetFinalOutput(r, v)
    \/ /\ nops < MaxOps
       /\ \E r \in DOMAIN runs : ManualSend(r)
    \/ /\ nops < MaxOps
       /\ NoOpCall
    \/ \E m \in Msgs : Raise(m)
    \/ Catch
    \/ ExitStep
    \/ ExitRun
    \/ ExitNoOp
    \/ \E reachable \in BOOLEAN : WorkerSend(reachable)

Spec == Init /\ [][Next]_vars

\* Step-operation behaviours: a tracer in local mode (no api_url), one run,
\* step scopes with every sample_rate and draw, every StepContext method
\* called on any handle, open or already exited.
LocalMode ==
    [enabled |-> TRUE, fail_silently |-> TRUE, auto_send |-> FALSE,
     client |-> FALSE]

InitSteps == Init /\ cfg = LocalMode

NextSteps ==
    \/ /\ runs = <<>>
       /\ \E rid \in RunIdArgs : StartRun(rid)
    \/ /\ Len(steps) < MaxSteps
       /\ \E r \in DOMAIN runs, rate \in Rates, u \in Draws : EnterStep(r, rate, u)
    \/ /\ nops < MaxStepOps
       /\ \E sid \in DOMAIN steps : SetInput(sid)
    \/ /\ nops < MaxStepOps
       /\ \E sid \in DOMAIN steps : SetOutput(sid)
    \/ /\ nops < MaxStepOps
       /\ \E sid \in DOMAIN steps, L \in CandLists : SetInputCandidates(sid, L)
    \/ /\ nops < MaxStepOps
       /\ \E sid \in DOMAIN steps, L \in CandLists : SetOutputCandidates(sid, L)
    \/ /\ nops < MaxStepOps
       /\ \E sid \in DOMAIN steps, c \in Cands : AddCandidateIn(sid, c)
    \/ /\ nops < MaxStepOps
       /\ \E sid \in DOMAIN steps, c \in Cands : AddCandidateOut(sid, c)
    \/ /\ nops < MaxStepOps
       /\ \E sid \in DOMAIN steps, a \in DecisionArgs : AddDecision(sid, a)
    \/ /\ nops < MaxStepOps
       /\ \E sid \in DOMAIN steps, k \in UserMetaKeys : AddMetadata(sid, k)
    \/ ExitStep
    \/ ExitRun

SpecSteps == InitSteps /\ [][NextSteps]_vars

\* Overlapping runs: a tracer in local mode on which a run scope may be
\* opened while another is open; steps are opened through the handle of
\* any open run.
NextNested ==
    \/ /\ Len(scopes) < MaxNestedScopes
       /\ \E rid \in RunIdArgs : StartRun(rid)
    \/ /\ Len(scopes) < MaxNestedScopes
       /\ \E r \in DOMAIN runs : EnterStep(r, 100, 0)
    \/ /\ nops < MaxOps
       /\ \E r \in DOMAIN runs, v \in Outputs : SetFinalOutput(r, v)
    \/ Raise("boom")
    \/ Catch
    \/ ExitStep
    \/ ExitRun

SpecNested == InitSteps /\ [][NextNested]_vars

\* Delivery behaviours: an enabled tracer with an api_url, with and
\* without auto_send and fail_silently.  The pipeline thread opens run
\* scopes one after the other and may call send on any run handle; the
\* worker thread takes runs off the queue and posts them, each attempt
\* meeting any response.
InitClient == Init /\ cfg.enabled /\ cfg.client

NextClient ==
    \/ /\ stack = <<>>
       /\ Len(runs) < MaxClientRuns
       /\ Len(enq) < MaxEnq
       /\ \E rid \in RunIdArgs : StartRun(rid)
    \/ /\ Len(enq) + Len(stack) < MaxEnq
       /\ \E r \in DOMAIN runs : ManualSend(r)
    \/ ExitRun
    \/ \E w \in DOMAIN wk : WorkerGet(w)
    \/ \E w \in DOMAIN wk, resp \in Responses : WorkerAttempt(w, resp)

SpecClient == InitClient /\ [][NextClient]_vars

\* Delivery under fair scheduling of the worker thread: a thread that can
\* take a run or make its next attempt eventually does; the pipeline
\* thread is under no obligation to go on.
SpecClientFair ==
    /\ SpecClient
    /\ WF_vars(\E w \in DOMAIN wk : WorkerGet(w))
    /\ WF_vars(\E w \in DOMAIN wk, resp \in Responses : WorkerAttempt(w, resp))

\* Shutdown behaviours: a tracer with the default settings whose runs are
\* enqueued at scope exit; the sentinel is put on the queue once, at any
\* point, and runs may be enqueued before and after it.
NextShutdown ==
    \/ /\ stack = <<>>
       /\ Len(runs) < MaxClientRuns
       /\ \E rid \in RunIdArgs : StartRun(rid)
    \/ ExitRun
    \/ /\ \A i \in DOMAIN enq : enq[i] # Sentinel
       /\ PutSentinel
    \/ \E w \in DOMAIN wk : WorkerGet(w)
    \/ \E w \in DOMAIN wk, resp \in {Http(200), Transport("ConnectError")} :
          WorkerAttempt(w, resp)
    \/ \E w \in DOMAIN wk : WorkerBreak(w)

InitShutdown == InitClient /\ cfg.auto_send

SpecShutdown == InitShutdown /\ [][NextShutdown]_vars

\* Ingestion behaviours: payloads that differ in their steps are posted,
\* the database may fail any statement of an ingestion, and runs are
\* fetched by id.
NextApi ==
    \/ /\ Len(db.pipeline_runs) < MaxStored
       /\ \E p \in IngestPayloads :
             \E fail \in 0..(1 + Len(p.steps)) : CreateRun(p, fail)
    \/ \E run_id \in RunIds : GetRun(run_id)

\* the API runs without a tracer; the tracer's configuration is immaterial
InitApi == Init /\ cfg = LocalMode

SpecApi == InitApi /\ [][NextApi]_vars

\* the default settings: XRayTracer(api_url=...) with enabled,
\* fail_silently and auto_send left at True
DefaultMode ==
    [enabled |-> TRUE, fail_silently |-> TRUE, auto_send |-> TRUE,
     client |-> TRUE]

InitTwin == Init /\ cfg = DefaultMode

NextTwin ==
    \/ /\ \A s \in Sides : Len(twin[s].runs) < MaxTwinRuns
       /\ TwinStartRun
    \/ \E v \in Outputs : TwinSetFinalOutput(v)
    \/ \E m \in Msgs : TwinRaise(m)
    \/ TwinExitRun
    \/ \E s \in Sides : TwinWorkerGet(s)
    \/ \E s \in Sides : \E resp \in SideResponses(s) : TwinWorkerAttempt(s, resp)

SpecTwin == InitTwin /\ [][NextTwin]_vars

\* Listing behaviours: payloads that differ in the filtered fields are
\* posted and the runs are listed under every combination of filters.
\* pipeline_name and success in every combination, together with at most
\* one of the tag, version and context filters
RunQueries ==
    LET NameFilters == {NoneStr, "p", ""}
        SuccessFilters == {"None", "True", "False"}
        TagFilters == {TagA, <<"a", "_">>}
        CtxFilters == {CtxText.User42, CtxText.User43, CtxText.NestedId,
                       CtxText.Truncated, CtxText.Array}
    IN { RunQuery(name, version, success, <<>>, NoneStr, 100, 0) :
           name \in NameFilters, version \in {NoneStr, "2"},
           success \in SuccessFilters }
       \cup { RunQuery(name, NoneStr, success, tag, NoneStr, 100, 0) :
                name \in NameFilters, success \in SuccessFilters,
                tag \in TagFilters }
       \cup { RunQuery(name, NoneStr, success, <<>>, context, 100, 0) :
                name \in NameFilters, success \in SuccessFilters,
                context \in CtxFilters }

NextList ==
    \/ /\ Len(db.pipeline_runs) < MaxStored
       /\ \E p \in ListPayloads : CreateRun(p, 0)
    \/ \E q \in RunQueries : ListRuns(q)

SpecList == InitApi /\ [][NextList]_vars

\* Query behaviours: payloads that differ in their steps are posted; the
\* steps are listed under every combination of one name, type, rate,
\* duration and pipeline filter, runs and steps are listed page by page
\* (limit -1 to 2, offset 0 to 2), and the analytics are asked for with
\* and without each restriction.  No query writes to the database, so a
\* behaviour posts its runs and then asks one question: every stored
\* content is still met by every question.
NextQuery ==
    \/ /\ Len(db.pipeline_runs) < MaxStored
       /\ http.op \in {"none", "create_run"}
       /\ \E p \in QueryPayloads : CreateRun(p, 0)
    \/ /\ http.op \in {"none", "create_run"}
       /\ \E name \in {NoneStr, "A", ""}, type \in {NoneStr, "llm"},
             rates \in { <<<<>>, <<>>>>, <<<<Frac(1, 2)>>, <<>>>>,
                         <<<<>>, <<Frac(1, 3)>>>>,
                         <<<<Frac(1, 3)>>, <<Frac(1, 2)>>>> },
             durations \in { <<<<>>, <<>>>>, <<<<10>>, <<>>>>, <<<<>>, <<5>>>> },
             pipeline \in {NoneStr, "p"} :
             QuerySteps([StepQuery EXCEPT
                            !.step_name = name, !.step_type = type,
                            !.min_reduction_rate = rates[1],
                            !.max_reduction_rate = rates[2],
                            !.min_duration_ms = durations[1],
                            !.max_duration_ms = durations[2],
                            !.pipeline_name = pipeline])
    \/ /\ http.op \in {"none", "create_run"}
       /\ \E name \in {NoneStr, "A"}, limit \in -1..2, offset \in 0..2 :
             QuerySteps([StepQuery EXCEPT
                            !.step_name = name, !.limit = limit,
                            !.offset = offset])
    \/ /\ http.op \in {"none", "create_run"}
       /\ \E name \in {NoneStr, "p"}, limit \in -1..2, offset \in 0..2 :
             ListRuns(RunQuery(name, NoneStr, "None", <<>>, NoneStr, limit,
                               offset))
    \/ /\ http.op \in {"none", "create_run"}
       /\ \E pipeline \in {NoneStr, "p", ""}, type \in {NoneStr, "llm"} :
             StepPerformanceAnalytics(pipeline, type)

SpecQuery == InitApi /\ [][NextQuery]_vars

\* ------------------------------------------------------------ helpers
RunScope(r) == CHOOSE sc \in DOMAIN scopes :
                   scopes[sc].kind = "run" /\ scopes[sc].obj = r
Appended(sid) == \E r \in DOMAIN runs : sid \in Range(runs[r].steps)
ExitOps == {"step_exit", "run_exit", "noop_exit"}

\* ------------------------------------------------------------- claims

\* C1: when a failure leaves a step scope, the Step has its duration
\* stamped, metadata['error'] is the failure's message, the Step is the last
\* one appended to its Run, and the same failure goes on propagating.
C1_StepFailureFinalized ==
    (last.op = "step_exit" /\ last.e # NoExc) =>
        LET sid == scopes[last.id].obj
            r == stepCtx[sid].run
        IN /\ steps[sid].duration_ms # NoDuration
           /\ steps[sid].metadata["error"] = MStr(last.e.msg)
           /\ runs[r].steps # <<>>
           /\ runs[r].steps[Len(runs[r].steps)] = sid
           /\ scopes[last.id].excOut = last.e
           /\ exc = last.e

C1_Witness ==
    /\ last.op = "step_exit"
    /\ last.e = PipelineExc("boom")
    /\ steps[scopes[last.id].obj].metadata["error"] = MStr("boom")

\* C2: when a failure leaves a run scope, whatever its message, the Run has
\* success = false, error = the failure's message and its end time stamped,
\* and the failure goes on propagating.
C2_RunFailureFinalized ==
    (last.op = "run_exit" /\ last.e # NoExc) =>
        LET r == scopes[last.id].obj
        IN /\ runs[r].success = FALSE
           /\ runs[r].error = last.e.msg
           /\ runs[r].end_time # NoTime
           /\ exc = last.e

\* C3: under every tracer configuration a failure raised by pipeline code
\* leaves every scope it crosses as the same failure: it is neither
\* swallowed nor replaced by a failure of the tracing or delivery layer.
C3_PipelineFailurePropagates ==
    /\ \A sc \in DOMAIN scopes :
           (~scopes[sc].open /\ scopes[sc].excIn # NoExc) =>
               scopes[sc].excOut = scopes[sc].excIn
    /\ (last.op \in ExitOps /\ last.e # NoExc) => exc = last.e
    /\ exc.src \in {"none", "pipeline"}

C3_Witness ==
    /\ cfg.enabled /\ cfg.client /\ cfg.auto_send /\ ~cfg.fail_silently
    /\ last.op = "run_exit"
    /\ stack = <<>>
    /\ exc = PipelineExc("boom")
    /\ queue # <<>>

\* C4: a Run is finalized exactly once: PipelineRun.complete has run once
\* when the run scope has exited (and not before), and the end time, success
\* and error of a finalized Run never change afterwards.
C4_CompletedOnce ==
    \A r \in DOMAIN runs :
        /\ completes[r] = IF scopes[RunScope(r)].open THEN 0 ELSE 1
        /\ (runs[r].end_time # NoTime) = ~scopes[RunScope(r)].open

C4_NeverRewritten ==
    \A r \in DOMAIN runs :
        runs[r].end_time # NoTime =>
            /\ runs'[r].end_time = runs[r].end_time
            /\ runs'[r].success = runs[r].success
            /\ runs'[r].error = runs[r].error

C4_FinalizedExactlyOnce == [](C4_CompletedOnce) /\ [][C4_NeverRewritten]_vars

C4_Witness ==
    \E r \in DOMAIN runs :
        /\ completes[r] = 1
        /\ runs[r].error = "boom"
        /\ Len(runs) > r

\* C5: when no failure leaves the run scope, the Run finalizes with
\* success = true, no error, end time and total duration set and the last
\* value given to set_final_output (or none), also when one of its Steps
\* recorded metadata['error'].
C5_NormalExitSucceeds ==
    (last.op = "run_exit" /\ last.e = NoExc) =>
        LET r == scopes[last.id].obj
        IN /\ runs[r].success = TRUE
           /\ runs[r].error = NoneStr
           /\ runs[r].end_time # NoTime
           /\ total_duration_ms(runs[r]) # NoDuration
           /\ runs[r].final_output = finals[r]

C5_Witness ==
    /\ last.op = "run_exit"
    /\ last.e = NoExc
    /\ LET r == scopes[last.id].obj
       IN /\ runs[r].final_output # NoneStr
          /\ \E i \in DOMAIN runs[r].steps :
                 steps[runs[r].steps[i]].metadata["error"] = MStr("boom")

\* C6: in every Run, steps lists the Steps in creation order (the order in
\* which their scopes were entered, which is the order of their timestamps).
C6_StepsInCreationOrder ==
    \A r \in DOMAIN runs :
        \A i, j \in DOMAIN runs[r].steps :
            i < j => steps[runs[r].steps[i]].timestamp
                         < steps[runs[r].steps[j]].timestamp

\* C7: once a Step has been appended to its Run, no later call changes it.
C7_AppendedStepImmutable ==
    [][\A sid \in DOMAIN steps : Appended(sid) => steps'[sid] = steps[sid]]_vars

\* C8: whatever the sample_rate and the draw, the decisions of a Step are
\* exactly the add_decision calls made on it, in call order, and every Step
\* of a finalized Run is in that Run's steps.
C8_DecisionsNeverSampled ==
    \A sid \in DOMAIN steps :
        /\ steps[sid].decisions = calls[sid].decisions
        /\ (~scopes[RunScope(stepCtx[sid].run)].open) => Appended(sid)

C8_Witness ==
    \E sid \in DOMAIN steps :
        /\ ~stepCtx[sid].should_sample
        /\ Len(steps[sid].decisions) = 2
        /\ steps[sid].decisions[1] # steps[sid].decisions[2]
        /\ runs[stepCtx[sid].run].end_time # NoTime
        /\ Appended(sid)

\* C9: the sampling outcome of a Step is fixed at its creation and governs
\* all four candidate operations alike: a sampled Step holds what the
\* candidate calls gave it, on both sides, an unsampled Step holds no
\* candidates on either side.
C9_SameOutcome ==
    \A sid \in DOMAIN steps :
        IF stepCtx[sid].should_sample
        THEN /\ steps[sid].input_candidates = calls[sid].wantIn
             /\ steps[sid].output_candidates = calls[sid].wantOut
        ELSE /\ steps[sid].input_candidates = <<>>
             /\ steps[sid].output_candidates = <<>>

C9_DrawFixed ==
    \A sid \in DOMAIN stepCtx : stepCtx'[sid] = stepCtx[sid]

C9_OneDrawGovernsCandidates == [](C9_SameOutcome) /\ [][C9_DrawFixed]_vars

C9_Witness ==
    \E sid \in DOMAIN steps :
        /\ ~stepCtx[sid].should_sample
        /\ stepCtx[sid].sample_rate = 50
        /\ calls[sid].inSet > 0
        /\ calls[sid].outSet > 0

\* C10: on an unsampled Step, set_input_candidates(L) and
\* set_output_candidates(M) leave len(L) and len(M) in the metadata under
\* input_count and output_count, and store neither list.
C10_CountsPreserved ==
    \A sid \in DOMAIN steps :
        ~stepCtx[sid].should_sample =>
            /\ calls[sid].inSet >= 0 =>
                   steps[sid].metadata["input_count"] = MInt(calls[sid].inSet)
            /\ calls[sid].outSet >= 0 =>
                   steps[sid].metadata["output_count"] = MInt(calls[sid].outSet)
            /\ steps[sid].input_candidates = <<>>
            /\ steps[sid].output_candidates = <<>>

\* C11: a Step created with sample_rate 0.0 never stores candidates (both
\* lists stay empty and metadata['input_count'] is the count last passed to
\* set_input_candidates), and a Step created with sample_rate 1.0 holds
\* exactly the candidates it was given, on both sides, whatever the draw.
C11_ExtremesDeterministic ==
    \A sid \in DOMAIN steps :
        /\ stepCtx[sid].sample_rate = 0 =>
               /\ steps[sid].input_candidates = <<>>
               /\ steps[sid].output_candidates = <<>>
               /\ calls[sid].inSet >= 0 =>
                      steps[sid].metadata["input_count"] = MInt(calls[sid].inSet)
        /\ stepCtx[sid].sample_rate = 100 =>
               /\ steps[sid].input_candidates = calls[sid].wantIn
               /\ steps[sid].output_candidates = calls[sid].wantOut

C11_Witness ==
    \E sid \in DOMAIN steps :
        /\ stepCtx[sid].sample_rate = 0
        /\ calls[sid].inSet = 2
        /\ calls[sid].outSet > 0
        /\ steps[sid].metadata["input_count"] = MInt(2)

\* C12: with enabled = False, whatever calls the pipeline makes, no Run,
\* Step, StepContext or Decision record exists, no run is current, nothing
\* is on the delivery queue (so the worker has nothing to deliver), the only
\* failures in flight are the pipeline's own, and every scope passes a
\* failure on exactly as it received it.
NoOpKinds == {"noop_run", "noop_step"}

C12_DisabledIsNoOp ==
    ~cfg.enabled =>
        /\ runs = <<>>
        /\ steps = <<>>
        /\ stepCtx = <<>>
        /\ calls = <<>>
        /\ completes = <<>>
        /\ current_run = 0
        /\ queue = <<>>
        /\ \A reachable \in BOOLEAN : ~ENABLED WorkerSend(reachable)
        /\ exc.src \in {"none", "pipeline"}
        /\ last.op \in {"start_run", "noop_step", "noop_call"} => exc = NoExc
        /\ \A sc \in DOMAIN scopes :
              /\ scopes[sc].kind \in NoOpKinds
              /\ scopes[sc].excOut = scopes[sc].excIn

C12_Witness ==
    /\ ~cfg.enabled
    /\ cfg.client
    /\ cfg.auto_send
    /\ ~cfg.fail_silently
    /\ nops = 1
    /\ Len(scopes) = 2
    /\ stack = <<>>
    /\ \E sc \in DOMAIN scopes : scopes[sc].kind = "noop_step"

\* ---------------------------------------------------- delivery claims
ClientErrorStatus(resp) == resp.status >= 400 /\ resp.status <= 499
InSendRun == { w \in DOMAIN wk : wk[w].pc = "send_run" }
PendingEntries == { e \in DOMAIN log : log[e].outcome = "pending" }

\* C13: one send_run call makes at most 3 attempts and returns at the first
\* answer that is a success; the waits it makes are 500 ms then 1000 ms, one
\* after each attempt that is followed by another and none after the
\* attempt that ends the call; a call that waited twice and then succeeded
\* made exactly 3 attempts; a call that is over makes no further attempt.
C13_AttemptsAndWaits ==
    \A e \in DOMAIN log :
        /\ log[e].attempts <= 3
        /\ log[e].outcome = "returned" => log[e].resp.exc = "none"
        /\ log[e].resp.exc = "none" /\ log[e].attempts > 0 =>
               log[e].outcome = "returned"
        /\ Len(log[e].sleeps) <= 2
        /\ \A i \in DOMAIN log[e].sleeps :
               log[e].sleeps[i] = IF i = 1 THEN 500 ELSE 1000
        /\ Len(log[e].sleeps) = IF log[e].outcome = "pending"
                                THEN log[e].attempts
                                ELSE log[e].attempts - 1
        /\ log[e].outcome = "returned" /\ Len(log[e].sleeps) = 2 =>
               log[e].attempts = 3

C13_CallOver ==
    \A e \in DOMAIN log : log[e].outcome # "pending" => log'[e] = log[e]

C13_RetryPolicy == [](C13_AttemptsAndWaits) /\ [][C13_CallOver]_vars

C13_Witness ==
    \E e \in DOMAIN log :
        /\ log[e].outcome = "returned"
        /\ log[e].attempts = 3
        /\ log[e].sleeps = <<500, 1000>>

\* C14 (as stated): every send_run call that ends with a client error
\* (status 400..499) made exactly 1 attempt and no backoff wait.
C14_ExactlyOneAttempt ==
    \A e \in DOMAIN log :
        (log[e].outcome = "raised" /\ ClientErrorStatus(log[e].resp)) =>
            /\ log[e].attempts = 1
            /\ log[e].sleeps = <<>>

\* C14: an attempt answered with a status in 400..499 ends the send_run
\* call: the failure is raised, the worker has left the call, and no wait
\* follows that attempt; when it was the first attempt, no wait was made
\* at all.
C14_ClientErrorNeverRetried ==
    \A e \in DOMAIN log :
        (log[e].attempts > 0 /\ ClientErrorStatus(log[e].resp)) =>
            /\ log[e].outcome = "raised"
            /\ \A w \in DOMAIN wk : wk[w].entry # e
            /\ Len(log[e].sleeps) = log[e].attempts - 1
            /\ log[e].attempts = 1 => log[e].sleeps = <<>>

C14_Witness ==
    \E e \in DOMAIN log :
        /\ log[e].resp = Http(400)
        /\ log[e].attempts = 2
        /\ log[e].outcome = "raised"
        /\ log[e].sleeps = <<500>>

\* C15: every send_run call that raised a failure other than a client
\* error made all 3 attempts.
C15_RetriedToExhaustion ==
    \A e \in DOMAIN log :
        (log[e].outcome = "raised" /\ ~ClientErrorStatus(log[e].resp)) =>
            log[e].attempts = 3

\* C16: a step that puts a run on the queue does nothing else to the
\* delivery state: the run goes to the back of the queue, no attempt is
\* made and no worker moves; every attempt is a step of a worker thread
\* that leaves the pipeline thread as it was; and while a worker is inside
\* send_run the pipeline thread can still enqueue.
C16_PutOnly ==
    /\ enq' # enq =>
           /\ Len(enq') = Len(enq) + 1
           /\ queue' = Append(queue, enq'[Len(enq')])
           /\ log' = log
           /\ wk' = wk
    /\ log' # log =>
           /\ enq' = enq
           /\ last' = last
           /\ exc' = exc
           /\ stack' = stack
           /\ scopes' = scopes
           /\ runs' = runs

C16_ProducerNotDelayed ==
    /\ \A e \in DOMAIN log : log[e].thread \in DOMAIN wk
    /\ (InSendRun # {} /\ exc = NoExc) =>
           \A r \in DOMAIN runs : ENABLED ManualSend(r)

C16_BackgroundSendOnlyEnqueues ==
    [](C16_ProducerNotDelayed) /\ [][C16_PutOnly]_vars

C16_Witness ==
    /\ last.op = "send"
    /\ Len(queue) = 1
    /\ \E e \in PendingEntries : log[e].attempts = 1

\* C17: the client has exactly one worker thread, so at most one worker is
\* inside send_run and at most one send_run call is unfinished.
C17_SingleWorker ==
    /\ Cardinality(DOMAIN wk) = 1
    /\ Cardinality(InSendRun) <= 1
    /\ Cardinality(PendingEntries) <= 1

C17_Witness ==
    /\ last.op = "run_exit"
    /\ queue # <<>>
    /\ \E w \in InSendRun : wk[w].attempt = 2

\* C18: send_run is called once per dequeued run and a run is never put
\* back (calls made + runs waiting = runs enqueued, and each enqueued run is
\* where it was put); whatever the calls' outcomes and whatever
\* fail_silently is, the worker thread is alive, no failure is in flight in
\* the pipeline thread or has left a run scope, and a waiting worker can
\* take the next queued run.
C18_FailureDiscarded ==
    /\ Len(log) + Len(queue) = Len(enq)
    /\ worker = "running"
    /\ \A w \in DOMAIN wk :
          /\ wk[w].pc \in {"get", "send_run"}
          /\ (wk[w].pc = "get" /\ queue # <<>>) => ENABLED WorkerGet(w)
    /\ exc = NoExc
    /\ \A sc \in DOMAIN scopes : scopes[sc].excOut = NoExc

C18_Witness ==
    /\ ~cfg.fail_silently
    /\ Len(log) = 2
    /\ log[1].outcome = "raised"
    /\ log[1].attempts = 3
    /\ log[2].outcome = "returned"

\* C19: the runs handed to send_run are, in order, the first runs put on
\* the queue, and the queue holds the rest in put order.
C19_Fifo ==
    /\ Len(log) <= Len(enq)
    /\ \A e \in DOMAIN log : log[e].run = enq[e]
    /\ queue = SubSeq(enq, Len(log) + 1, Len(enq))

C19_Witness ==
    /\ Len(log) = 2
    /\ log[1].run = 1
    /\ log[2].run = 2
    /\ log[1].outcome = "raised"

\* C20: on the auto-send path (no send call made by the pipeline), when
\* the delivery of a run has failed, the failure left that run's scope if
\* fail_silently is false and did not if it is true.
C20_FailSilentlyDecides ==
    \A e \in DOMAIN log :
        (nops = 0 /\ log[e].outcome = "raised") =>
            LET sc == RunScope(log[e].run) IN
            IF cfg.fail_silently
            THEN scopes[sc].excOut = NoExc
            ELSE scopes[sc].excOut.src = "delivery"

\* -------------------------------------------------------- API claims
AcceptedIds == { accepted[i].run_id : i \in DOMAIN accepted }
AcceptedOf(run_id) ==
    accepted[CHOOSE i \in DOMAIN accepted : accepted[i].run_id = run_id]
StoredIds == { db.pipeline_runs[i].run_id : i \in DOMAIN db.pipeline_runs }
\* the position of step row i among the step rows of its run
RowPos(i) ==
    Cardinality({ j \in 1..i : db.step_traces[j].run_id = db.step_traces[i].run_id })
Listed(a) == { a.items[i].run_id : i \in DOMAIN a.items }

\* C22: every stored step row has input_count and output_count equal to the
\* lengths of the candidate lists of the payload step it was made from, and
\* a reduction_rate r with r * input_count = input_count - output_count when
\* input_count > 0 and r = 0 otherwise; r is negative when output_count is
\* larger than a positive input_count.
C22_DerivedFields ==
    \A i \in DOMAIN db.step_traces :
        LET row == db.step_traces[i] IN
        /\ row.run_id \in AcceptedIds
        /\ RowPos(i) <= Len(AcceptedOf(row.run_id).steps)
        /\ LET sd == AcceptedOf(row.run_id).steps[RowPos(i)]
               n == Len(sd.input_candidates)
               m == Len(sd.output_candidates)
               r == row.reduction_rate
           IN /\ row.input_count = n
              /\ row.output_count = m
              /\ r.den > 0
              /\ IF n > 0 THEN r.num * n = r.den * n - r.den * m
                 ELSE r.num = 0
              /\ (n > 0 /\ m > n) => r.num < 0

C22_Witness ==
    \E i \in DOMAIN db.step_traces :
        /\ db.step_traces[i].input_count = 1
        /\ db.step_traces[i].output_count = 2
        /\ db.step_traces[i].reduction_rate = Frac(-1, 1)

\* C23: after any ingestion, accepted or failed, the stored runs are exactly
\* the accepted payloads' runs, each with all the steps of its payload and
\* no other, and every stored step belongs to a stored run.
C23_AtomicIngestion ==
    /\ StoredIds = AcceptedIds
    /\ \A id \in StoredIds :
          LET rows == StepsOfRun(db, id) IN
          [i \in DOMAIN rows |-> StepOut(rows[i])] = AcceptedOf(id).steps
    /\ \A i \in DOMAIN db.step_traces : db.step_traces[i].run_id \in StoredIds

C23_Witness ==
    /\ http.op = "create_run"
    /\ http.exc = "OperationalError"
    /\ Len(db.pipeline_runs) = 1
    /\ Len(db.step_traces) = 2
    /\ http.req_id \notin StoredIds

\* C24: no two stored runs have the same run_id, a payload is accepted at
\* most once per run_id, and an ingestion that is not accepted (a conflict
\* among them) leaves the database exactly as it was.
C24_UniqueIds ==
    /\ \A i, j \in DOMAIN db.pipeline_runs :
          db.pipeline_runs[i].run_id = db.pipeline_runs[j].run_id => i = j
    /\ \A i, j \in DOMAIN accepted :
          accepted[i].run_id = accepted[j].run_id => i = j
    /\ http.exc = "IntegrityError" => http.req_id \in StoredIds

C24_RejectedChangesNothing == accepted' = accepted => db' = db

C24_ConflictNotOverwrite ==
    [](C24_UniqueIds) /\ [][C24_RejectedChangesNothing]_vars

C24_Witness ==
    /\ http.op = "create_run"
    /\ http.exc = "IntegrityError"
    /\ http.status = 500
    /\ Len(db.pipeline_runs) = 1
    /\ Len(StepsOfRun(db, http.req_id)) = 1

\* the number of attempts one send_run call makes when every attempt is
\* answered with resp
RECURSIVE attempts_from(_, _)
attempts_from(attempt, resp) ==
    IF after_attempt(attempt, resp) = "retry"
    THEN attempts_from(attempt + 1, resp)
    ELSE attempt + 1

\* C25: POST /api/runs answers a payload whose run_id is already stored
\* with a status in 400..499, so that a send_run call delivering it makes
\* exactly 1 attempt, and answers a first-time payload with 201 and its
\* run_id.
C25_DuplicateIsClientError ==
    http.op = "create_run" =>
        /\ http.exc = "IntegrityError" =>
              /\ ClientErrorStatus(Http(http.status))
              /\ attempts_from(0, Http(http.status)) = 1
        /\ http.exc = "" =>
              /\ http.status = 201
              /\ http.run_id = http.req_id

\* C26: a run fetched by its run_id comes back with the steps of its
\* payload, in payload order and with their candidates and decisions,
\* whatever their timestamps; an id never ingested is answered not-found.
C26_RoundTrip ==
    http.op = "get_run" =>
        IF http.req_id \in AcceptedIds
        THEN /\ http.status = 200
             /\ http.steps = AcceptedOf(http.req_id).steps
        ELSE http.status = 404

\* what the claims take a filter to mean; an empty or absent parameter is
\* not a filter
TagPresent(row, tag) == \E i \in DOMAIN row.tags : row.tags[i] = tag
PairsEqual(ctx, f) == \A k \in DOMAIN f : k \in DOMAIN ctx /\ ctx[k] = f[k]
WellFormed(q) ==
    Truthy(q.context) =>
        (json_loads(q.context).ok /\ json_loads(q.context).kind = "object")
Satisfies(row, q) ==
    /\ Truthy(q.pipeline_name) => row.pipeline_name = q.pipeline_name
    /\ Truthy(q.pipeline_version) => row.pipeline_version = q.pipeline_version
    /\ q.success # "None" => row.success = (q.success = "True")
    /\ q.tags # <<>> => TagPresent(row, q.tags)
    /\ Truthy(q.context) => jsonb_contains(row.context, json_loads(q.context))

\* C27: the runs a listing returns are exactly the stored runs that satisfy
\* every supplied filter: pipeline_name equal, pipeline_version equal,
\* success equal, tag present, context contained.
C27_Conjunctive ==
    (http.op = "list_runs" /\ http.status = 200 /\ WellFormed(http.query)) =>
        Listed(http) =
            { db.pipeline_runs[i].run_id :
                i \in { j \in DOMAIN db.pipeline_runs :
                          Satisfies(db.pipeline_runs[j], http.query) } }

\* C28: under a context filter alone, the runs listed are exactly the
\* stored runs whose context has every key of the filter with an equal
\* value.
C28_ContextPairsEqual ==
    (/\ http.op = "list_runs"
     /\ http.status = 200
     /\ Truthy(http.query.context)
     /\ WellFormed(http.query)
     /\ ~Truthy(http.query.pipeline_name)
     /\ http.query.success = "None") =>
        \A i \in DOMAIN db.pipeline_runs :
            db.pipeline_runs[i].run_id \in Listed(http) <=>
                PairsEqual(db.pipeline_runs[i].context,
                           json_loads(http.query.context).obj)

\* C29: under a tag filter alone, the runs listed are exactly the stored
\* runs that have the filter's tag among their tags.
C29_TagMembership ==
    (/\ http.op = "list_runs"
     /\ http.status = 200
     /\ http.query.tags # <<>>
     /\ ~Truthy(http.query.pipeline_name)
     /\ http.query.success = "None") =>
        \A i \in DOMAIN db.pipeline_runs :
            db.pipeline_runs[i].run_id \in Listed(http) <=>
                TagPresent(db.pipeline_runs[i], http.query.tags)

\* C30: a listing whose context filter is not a parseable key-value object
\* is answered with a status in 400..499 and without any query having been
\* executed.
C30_MalformedRejected ==
    (http.op = "list_runs" /\ ~WellFormed(http.query)) =>
        /\ ClientErrorStatus(Http(http.status))
        /\ http.queries = 0

\* what the pipeline and its caller can observe of one execution
View(s) ==
    [ runs |-> twin[s].runs, outcomes |-> twin[s].outcomes,
      exc |-> twin[s].exc, open |-> twin[s].open ]

\* C21: with the default settings, the execution whose ingestion endpoint
\* answers and the execution whose endpoint cannot be reached give the
\* pipeline and its caller the same thing at every point: the same Run
\* contents, and from every scope the pipeline's own failure or none.
C21_SameWhetherReachable ==
    /\ View("up") = View("down")
    /\ \A s \in Sides : \A i \in DOMAIN twin[s].outcomes :
          twin[s].outcomes[i].src # "delivery"

C21_Witness ==
    /\ twin["up"].delivered >= 1
    /\ twin["down"].discarded >= 1
    /\ Len(twin["down"].outcomes) = 2
    /\ \E i \in DOMAIN twin["down"].outcomes :
          twin["down"].outcomes[i] = PipelineExc("boom")
    /\ \E i \in DOMAIN twin["down"].runs :
          twin["down"].runs[i].final_output \in Outputs

\* C34: every Step in a Run's steps was opened through that Run's handle
\* and carries that Run's run_id, a Run's final_output is the last value set
\* through its handle, the error of a finalized Run is the message of the
\* failure that left its own scope, and a Run only changes by an operation
\* made through its own handle (set_final_output, the exit of one of its
\* steps, the exit of its scope), also while another run scope is open.
C34_OwnSteps ==
    \A r \in DOMAIN runs :
        /\ \A i \in DOMAIN runs[r].steps :
              /\ stepCtx[runs[r].steps[i]].run = r
              /\ steps[runs[r].steps[i]].run_id = runs[r].run_id
        /\ runs[r].final_output = finals[r]
        /\ ~scopes[RunScope(r)].open =>
              /\ runs[r].error =
                    IF Truthy(scopes[RunScope(r)].excIn.msg)
                    THEN scopes[RunScope(r)].excIn.msg ELSE NoneStr
              /\ runs[r].success = ~Truthy(scopes[RunScope(r)].excIn.msg)

C34_OwnHandleOnly ==
    \A r \in DOMAIN runs :
        runs'[r] # runs[r] =>
            \/ last'.op = "set_final_output" /\ last'.id = r
            \/ /\ last'.op = "step_exit"
               /\ stepCtx[scopes[last'.id].obj].run = r
            \/ last'.op = "run_exit" /\ scopes[last'.id].obj = r

C39_Step ==
    /\ \A r \in DOMAIN runs :
          LET a == runs[r].steps
              b == runs'[r].steps
          IN /\ Len(b) \in {Len(a), Len(a) + 1}
             /\ SubSeq(b, 1, Len(a)) = a
             /\ Len(b) = Len(a) + 1 =>
                   /\ last'.op = "step_exit"
                   /\ b[Len(b)] = scopes[last'.id].obj
                   /\ stepCtx[b[Len(b)]].run = r
                   /\ steps'[b[Len(b)]].run_id = runs[r].run_id
                   /\ \A i \in DOMAIN a : steps'[a[i]] = steps[a[i]]
    /\ last'.op = "step_exit" /\ last' # last =>
          \E r \in DOMAIN runs : Len(runs'[r].steps) = Len(runs[r].steps) + 1

C39_AppendOnly == [][C39_Step]_vars

C39_Witness ==
    \E r \in DOMAIN runs :
        /\ Len(runs[r].steps) = 2
        /\ runs[r].steps[1] # runs[r].steps[2]
        /\ \A i \in 1..2 : steps[runs[r].steps[i]].run_id = runs[r].run_id

\* C40: the tracer's current run is None exactly when no run scope is
\* open, and otherwise it is the handle of a run scope that is open.
C40_CurrentRunIsOpen ==
    /\ (current_run = 0) <=> (OpenRuns = {})
    /\ current_run # 0 =>
          /\ scopes[current_run].kind = "run"
          /\ scopes[current_run].open

\* C36: whenever the worker is inside send_run for a run, serializing or
\* retrying it, that run is finalized: its scope has exited and its end
\* time is set.
C36_TransmitsFinalized ==
    \A w \in DOMAIN wk :
        wk[w].pc = "send_run" =>
            /\ runs[wk[w].run].end_time # NoTime
            /\ ~scopes[RunScope(wk[w].run)].open

\* C37: the exit of a run scope leaves the Run finalized and, when the
\* tracer has auto_send and a client, puts that Run on the queue exactly
\* once; without auto_send or without a client it puts nothing.  Nothing
\* but a scope exit or a send call puts a run on the queue, and a tracer
\* without a client never has anything queued.
C37_Step ==
    /\ \A sc \in DOMAIN scopes :
          (scopes[sc].kind = "run" /\ scopes[sc].open /\ ~scopes'[sc].open) =>
              LET r == scopes[sc].obj IN
              /\ runs'[r].end_time # NoTime
              /\ total_duration_ms(runs'[r]) # NoDuration
              /\ IF cfg.auto_send /\ cfg.client
                 THEN queue' = Append(queue, r) /\ enq' = Append(enq, r)
                 ELSE queue' = queue /\ enq' = enq
    /\ enq' # enq => last'.op \in {"run_exit", "send"}

C37_NothingQueuedLocally == ~cfg.client => (queue = <<>> /\ enq = <<>>)

C37_AutoSendOnce == [](C37_NothingQueuedLocally) /\ [][C37_Step]_vars

C37_Witness ==
    /\ cfg.auto_send
    /\ cfg.client
    /\ last.op = "run_exit"
    /\ enq = <<1>>
    /\ queue = <<1>>
    /\ runs[1].end_time # NoTime

\* C35: the worker passes runs to send_run in the order they were put and
\* never one that was put after the sentinel; once the worker has taken
\* the sentinel and stopped, every run put before the sentinel has been
\* passed to send_run and that call is over, and nothing is delivered
\* afterwards.
C35_SentinelDrains ==
    LET hasSentinel == \E i \in DOMAIN enq : enq[i] = Sentinel
        pos == CHOOSE i \in DOMAIN enq :
                   enq[i] = Sentinel /\ \A j \in 1..(i - 1) : enq[j] # Sentinel
    IN /\ \A i \in DOMAIN log :
             /\ i \in DOMAIN enq
             /\ log[i].run = enq[i]
             /\ hasSentinel => i < pos
       /\ \A w \in DOMAIN wk :
             wk[w].pc = "exited" =>
                 /\ hasSentinel
                 /\ Len(log) = pos - 1
                 /\ \A i \in DOMAIN log : log[i].outcome # "pending"
                 /\ Len(queue) = Len(enq) - pos

C35_Witness ==
    /\ enq = <<1, Sentinel, 2>>
    /\ queue = <<2>>
    /\ \A w \in DOMAIN wk : wk[w].pc = "exited"
    /\ Len(log) = 1
    /\ log[1].run = 1
    /\ log[1].attempts = retries

\* C38: under fair scheduling of the worker, every run that is put on the
\* queue is eventually taken and passed to send_run, and again and again
\* the queue's count of unfinished items is zero, also after a run that
\* failed on all 3 attempts.
C38_EventuallyHandled ==
    /\ \A n \in 1..MaxEnq : [](Len(enq) >= n => <>(Len(log) >= n))
    /\ []<>(unfinished_tasks(queue, wk) = 0)

C38_Witness ==
    /\ Len(log) = 2
    /\ log[1].outcome = "raised"
    /\ log[1].attempts = retries
    /\ log[2].outcome # "pending"
    /\ Len(enq) = 2
    /\ unfinished_tasks(queue, wk) = 0

\* C31: a listing of runs or of steps that is answered returns as total
\* the number of all stored records matching the filters, whatever limit
\* and offset are, and as items the records at positions offset+1 to
\* offset+limit of an arrangement of exactly the matching records that is
\* newest first (runs by created_at, steps by timestamp); items never
\* has more than limit entries.
C31_Paginated ==
    (/\ http.status = 200
     /\ http.op \in {"list_runs", "query_steps"}
     /\ http.op = "list_runs" => WellFormed(http.query)) =>
        LET q == http.query
            ofRuns == http.op = "list_runs"
            rows == IF ofRuns THEN db.pipeline_runs ELSE db.step_traces
            key(row) == IF ofRuns THEN row.created_at ELSE row.timestamp
            matches(row) == IF ofRuns THEN Satisfies(row, q)
                            ELSE step_matches(db, row, q)
            item(row) == IF ofRuns THEN PipelineRunSummary(db, row)
                         ELSE StepOut(row)
            matching == { i \in DOMAIN rows : matches(rows[i]) }
            n == Cardinality(matching)
            upto == IF q.offset + q.limit < n THEN q.offset + q.limit ELSE n
        IN /\ http.total = n
           /\ Len(http.items) <= q.limit
           /\ Len(http.items) = (IF upto > q.offset THEN upto - q.offset ELSE 0)
           /\ \E f \in [1..n -> matching] :
                 /\ \A i, j \in 1..n : i < j =>
                        /\ f[i] # f[j]
                        /\ key(rows[f[i]]) >= key(rows[f[j]])
                 /\ \A i \in DOMAIN http.items :
                        http.items[i] = item(rows[f[q.offset + i]])

\* C32: the step listing counts in total exactly the stored steps, of any
\* pipeline, that satisfy every filter supplied (step_name, step_type,
\* the reduction_rate range, the duration range, and pipeline_name of the
\* run that owns the step); every item is one of these steps, and a page
\* that is large enough holds all of them.
C32_StepFiltersConjunctive ==
    (http.status = 200 /\ http.op = "query_steps") =>
        LET q == http.query
            rows == db.step_traces
            owner(row) == CHOOSE run \in Range(db.pipeline_runs) :
                              run.run_id = row.run_id
            timed(row) == row.duration_ms # NoDuration
            satisfies(row) ==
                /\ Truthy(q.step_name) => row.step_name = q.step_name
                /\ Truthy(q.step_type) => row.step_type = q.step_type
                /\ \A lo \in Range(q.min_reduction_rate) :
                       FracLeq(lo, row.reduction_rate)
                /\ \A hi \in Range(q.max_reduction_rate) :
                       FracLeq(row.reduction_rate, hi)
                /\ \A lo \in Range(q.min_duration_ms) :
                       timed(row) /\ lo <= row.duration_ms
                /\ \A hi \in Range(q.max_duration_ms) :
                       timed(row) /\ row.duration_ms <= hi
                /\ Truthy(q.pipeline_name) =>
                       owner(row).pipeline_name = q.pipeline_name
            counted == { i \in DOMAIN rows : satisfies(rows[i]) }
        IN /\ http.total = Cardinality(counted)
           /\ \A k \in DOMAIN http.items :
                 \E i \in counted : http.items[k] = StepOut(rows[i])
           /\ (q.offset = 0 /\ q.limit >= http.total) =>
                 /\ Len(http.items) = http.total
                 /\ \A i \in counted :
                       \E k \in DOMAIN http.items :
                           http.items[k] = StepOut(rows[i])

C32_Witness ==
    /\ http.status = 200
    /\ http.op = "query_steps"
    /\ http.query.step_name = "A"
    /\ http.query.min_reduction_rate = <<Frac(1, 3)>>
    /\ http.query.max_reduction_rate = <<Frac(1, 2)>>
    /\ http.query.max_duration_ms = <<5>>
    /\ http.query.pipeline_name = "p"
    /\ http.total = 1
    /\ Len(db.step_traces) = 4
    /\ \E i, j \in DOMAIN db.pipeline_runs :
          db.pipeline_runs[i].pipeline_name # db.pipeline_runs[j].pipeline_name

\* C33: the analytics hold one group for every (step_type, step_name) of
\* the steps that pass the pipeline_name and step_type restrictions;
\* every such step is counted in exactly one group, a group's count is
\* the number of its steps, and its min and max reduction_rate are the
\* smallest and the largest reduction_rate among its steps, unchanged.
C33_GroupsPartition ==
    http.op = "step_performance_analytics" =>
        LET q == http.query
            rows == db.step_traces
            owner(row) == CHOOSE run \in Range(db.pipeline_runs) :
                              run.run_id = row.run_id
            passes(row) ==
                /\ Truthy(q.pipeline_name) =>
                       owner(row).pipeline_name = q.pipeline_name
                /\ Truthy(q.step_type) => row.step_type = q.step_type
            passing == { i \in DOMAIN rows : passes(rows[i]) }
            members(g) == { i \in passing :
                              /\ rows[i].step_type = g.step_type
                              /\ rows[i].step_name = g.step_name }
            same(a, b) == a.num * b.den = b.num * a.den
        IN /\ \A i \in passing :
                 Cardinality({ g \in http.items : i \in members(g) }) = 1
           /\ \A g \in http.items :
                 /\ members(g) # {}
                 /\ g.count = Cardinality(members(g))
                 /\ \E i \in members(g) :
                        same(g.min_reduction_rate, rows[i].reduction_rate)
                 /\ \E i \in members(g) :
                        same(g.max_reduction_rate, rows[i].reduction_rate)
                 /\ \A i \in members(g) :
                        /\ FracLeq(g.min_reduction_rate, rows[i].reduction_rate)
                        /\ FracLeq(rows[i].reduction_rate, g.max_reduction_rate)

====
